---- MODULE Spec2Model ----
(***************************************************************************)
(* margin-momentum-trading.                                                *)
(*                                                                         *)
(* Several specifications share the module.  Spec is the backtest          *)
(* simulation engine (src/src/backtest/backtest_engine.py,                 *)
(* BacktestEngine.run_backtest and BacktestEngine._calculate_metrics);     *)
(* SpecWide is the same loop on a price table of twelve instruments;       *)
(* SpecMetrics is _calculate_metrics applied to drawn arguments.           *)
(* SpecAnalysis is the signal detection of                                 *)
(* src/src/margin_momentum_analyzer.py (MarginMomentumAnalyzer.analyze and *)
(* _detect_margin_anomalies), SpecFilter is                                *)
(* MarginMomentumAnalyzer.filter_signals and SpecRsi is                    *)
(* TechnicalIndicators.calculate_rsi of the same file.  SpecMain is        *)
(* main() and analyze() of src/main.py, SpecRetry is retry_on_failure of   *)
(* src/src/utils/api_helper.py.  Each specification leaves the variables   *)
(* of the others at their idle values.                                     *)
(*                                                                         *)
(* Backtest.                                                               *)
(* One step of the model is one iteration of the per-day loop of           *)
(* run_backtest (lines 103-237) or the final metrics call (239-249).       *)
(*                                                                         *)
(* Arithmetic.  The code computes in floating point; the model computes    *)
(* the same expressions exactly, over integers.  All money amounts          *)
(* (prices, capital, pnl, equity) are in hundredths of the currency unit,  *)
(* so that entry_price * (1 + pct/100) is an integer for every price of    *)
(* the price table (whole currency units).  Percent annotations            *)
(* (expected_return, stop_loss) are whole percents as in the signal        *)
(* records.  A missing cell (np.nan) is the value NaN; arithmetic that     *)
(* touches NaN yields NaN, as in numpy.                                    *)
(***************************************************************************)
EXTENDS Integers, Sequences, FiniteSets, TLC

\* ------------------------------------------------------------------ bounds

\* Number of calendar days of the longest simulated date range.
MaxDays == 2

\* ------------------------------------------------------- program constants

\* Config.MAX_POSITION_SIZE = 0.10, as a percentage.
MAX_POSITION_SIZE == 10

\* The literal 0.1 of `current_capital * 0.1`, as a percentage.
CASH_FRACTION == 10

\* Config.MAX_HOLDINGS
MAX_HOLDINGS == 10

\* np.nan: a missing cell of the price table, and what arithmetic on it gives.
NaN == -1

\* ------------------------------------------------------------- input sets

\* Instruments of the price table (price_data.columns).
Columns == {"A", "B"}

\* Instruments the strategy callback may name in a signal row.
SignalStocks == {"A", "B"}

\* Values of one cell of the price table, per instrument: missing (NaN), zero,
\* 100 and 112 for A; missing and 100 for B.
PriceChoices(s) == IF s = "A" THEN {NaN, 0, 10000, 11200} ELSE {NaN, 10000}

\* Rows of the price table: one cell per instrument.
PriceRows == { r \in [Columns -> {NaN, 0, 10000, 11200}] :
                 \A s \in Columns : r[s] \in PriceChoices(s) }

\* Annotation policies of a strategy callback: the values it writes in the
\* grade, expected-return, stop-loss and holding-days columns of its rows
\* (read at lines 148-151).  S/15/-8/5 and
\* A/10/-8/5 are the rows of MarginMomentumAnalyzer; the two others are a
\* callback with a one-day holding target.
Profiles ==
    { [signal_grade |-> "S", expected_return |-> 15, stop_loss |-> -8, holding_days |-> 5],
      [signal_grade |-> "A", expected_return |-> 10, stop_loss |-> -8, holding_days |-> 5],
      [signal_grade |-> "S", expected_return |-> 15, stop_loss |-> -8, holding_days |-> 1],
      [signal_grade |-> "A", expected_return |-> 10, stop_loss |-> -8, holding_days |-> 1] }

\* The runs explored: BacktestEngine(initial_capital) with the default capital
\* (1000000, line 57) under each policy, and a run with capital 1100, which
\* buys one share at 100 and none at 112.
Runs ==
    { [initial_capital |-> 100000000, profile |-> p] : p \in Profiles } \cup
    { [initial_capital |-> 110000,
       profile |-> [signal_grade |-> "A", expected_return |-> 10,
                    stop_loss |-> -8, holding_days |-> 1]] }

\* One row of the signal frame under annotation policy p.
SignalRow(stock, type, p) ==
    [stock_id |-> stock, signal_type |-> type, signal_grade |-> p.signal_grade,
     expected_return |-> p.expected_return, stop_loss |-> p.stop_loss,
     holding_days |-> p.holding_days]

SignalRows(p) == { SignalRow(s, t, p) : s \in SignalStocks, t \in {"BUY", "SELL"} }

\* Non-empty signal frames: one or two rows, in the callback's order.
SignalFrames(p) ==
    { <<r>> : r \in SignalRows(p) } \cup
    { <<r1, r2>> : r1 \in SignalRows(p), r2 \in SignalRows(p) }

\* ------------------------------------------------------------------ state

VARIABLES
    price_data_empty, \* price_data.empty: the price table has no rows
    strategy_calls, \* number of calls of strategy_func so far
    pc,            \* position in run_backtest: "start", "loop", "done", "raised"
    initial_capital, \* self.initial_capital
    profile,       \* annotation policy of the strategy callback of this run
    end_date,      \* last day of date_range; the range is 1 .. end_date
    current_date,  \* day of the last completed loop iteration (0: none yet)
    price_index,   \* the days of 1 .. current_date that are in price_data.index
    row,           \* price_data.loc[date_str] of the last day that had data
    signals,       \* what strategy_func returned on that day
    current_capital,
    holdings,      \* insertion-ordered dict, as a sequence of holdings
    trades,
    equity_curve,  \* insertion-ordered dict, as a sequence of [date, value]
    last_valid,    \* history of the price table: per instrument, the last price
                   \* that was not missing in the rows so far (NaN: none yet)
    results,       \* <<>> until _calculate_metrics has returned, then <<r>>
    \* MarginMomentumAnalyzer.analyze and _detect_margin_anomalies
    an_pc,         \* "idle", "start", "raised", "loop", "returned"
    margin_data,   \* the margin/short bundle: which tables it holds
    indicators,    \* what the rsi and ma20 arguments are keyed by
    stock_index,   \* number of columns of price_data the loop has processed
    cur,           \* the data of the instrument of the last loop iteration
    detected,      \* the list `signals` of _detect_margin_anomalies
    skipped,       \* instruments whose iteration ended in the except handler
    returned,      \* <<>> until the detector has returned, then <<rows>>
    \* MarginMomentumAnalyzer.filter_signals
    f_pc,          \* "idle", "call", "returned"
    f_signals,     \* the frame passed to filter_signals, as a sequence of rows
    f_result,      \* the frame filter_signals returned
    \* TechnicalIndicators.calculate_rsi
    rsi_pc,        \* "idle", "call", "returned"
    rsi_prices,    \* the argument prices, as a sequence
    rsi_period,    \* the argument period
    rsi_out,       \* the series returned, as a sequence of quotients
    \* main.py: main() dispatching to analyze()
    m_pc,          \* position in main() / analyze(), "idle" when not running
    m_signals,     \* the local `signals` of analyze(), as a sequence of rows
    m_sent,        \* the notifier calls made so far, in order
    m_returned,    \* which of analyzer.analyze, analyzer.filter_signals returned
    m_raised,      \* analyzer.analyze or analyzer.filter_signals raised
    m_exit,        \* "none" while running, then the exit status "0" or "1"
    \* retry_on_failure: one call of the wrapper
    retry_pc,      \* "idle", "try", "returned", "raised"
    max_attempts,  \* the decorator's arguments
    delay,
    backoff,
    attempt,       \* the wrapper's locals
    current_delay,
    outcomes,      \* the outcome of each invocation of func so far, in order
    slept,         \* the arguments of the calls of time.sleep so far, in order
    propagated     \* the invocation whose result or exception left the wrapper

vars == <<price_data_empty, strategy_calls, pc, initial_capital, profile, end_date, current_date, price_index, row,
          signals, current_capital, holdings, trades, equity_curve, last_valid,
          results>>

avars == <<an_pc, margin_data, indicators, stock_index, cur, detected, skipped,
           returned>>

fvars == <<f_pc, f_signals, f_result>>

rvars == <<rsi_pc, rsi_prices, rsi_period, rsi_out>>

mvars == <<m_pc, m_signals, m_sent, m_returned, m_raised, m_exit>>

tvars == <<retry_pc, max_attempts, delay, backoff, attempt, current_delay, outcomes,
           slept, propagated>>

\* The variables of the operations modelled after the filter.
xvars == <<rvars, mvars, tvars>>

allvars == <<vars, avars, fvars, xvars>>

\* ---------------------------------------------------------------- helpers

IsNaN(x) == x = NaN

Min(a, b) == IF a <= b THEN a ELSE b

\* int(a / b) of Python for b > 0: truncation toward zero.
Trunc(a, b) == IF a >= 0 THEN a \div b ELSE -((-a) \div b)

\* x * n with numpy's NaN propagation.
NanMul(x, n) == IF IsNaN(x) THEN NaN ELSE x * n

\* x + y with numpy's NaN propagation.
NanAdd(x, y) == IF IsNaN(x) \/ IsNaN(y) THEN NaN ELSE x + y

\* A quotient n / d kept exactly; NanRatio is the float NaN.
Ratio(n, d) == [nan |-> FALSE, num |-> n, den |-> d]
ZeroRatio == Ratio(0, 1)
NanRatio == [nan |-> TRUE, num |-> 0, den |-> 1]

RECURSIVE GCD(_, _)
GCD(a, b) == IF b = 0 THEN a ELSE GCD(b, a % b)

\* n / d for d # 0 in lowest terms with a positive denominator, so that equal
\* quotients are equal records.
Reduced(n, d) ==
    LET a == IF n < 0 THEN -n ELSE n
        b == IF d < 0 THEN -d ELSE d
        g == GCD(a, b)
    IN  Ratio((IF d < 0 THEN -n ELSE n) \div g, b \div g)

\* The float -inf: a negative number divided by 0.
NegInf == Ratio(-1, 0)

\* a / b < c / d for a, c >= 0 and b, d > 0, by the continued-fraction
\* expansion of the two quotients (no product of the operands is formed).
RECURSIVE FracLess(_, _, _, _)
FracLess(a, b, c, d) ==
    IF a \div b # c \div d THEN a \div b < c \div d
    ELSE IF c % d = 0 THEN FALSE
    ELSE IF a % b = 0 THEN TRUE
    ELSE FracLess(d, c % d, b, a % b)

\* r < q for two quotients that are not NaN and have den > 0.
RatioLess(r, q) ==
    IF r.num < 0 /\ q.num >= 0 THEN TRUE
    ELSE IF r.num >= 0 /\ q.num < 0 THEN FALSE
    ELSE IF r.num >= 0 THEN FracLess(r.num, r.den, q.num, q.den)
    ELSE FracLess(-q.num, q.den, -r.num, r.den)

\* `stock_id in holdings`
Held(hold, stock_id) == \E i \in 1..Len(hold) : hold[i].stock_id = stock_id

\* What strategy_func returned: None, or a frame of rows (possibly empty).
NoneSignals == [is_none |-> TRUE, rows |-> <<>>]
Frame(rows) == [is_none |-> FALSE, rows |-> rows]

\* -------------------------------------------------- entries (lines 117-154)

\* signals[signals[type] == 'BUY'], in the frame's row order.
IsBuy(r) == r.signal_type = "BUY"
buy_signals(rows) == SelectSeq(rows, IsBuy)

\* Variant of position_size that sizes on the initial capital alone.
position_size_IgnoresCash(cap) == initial_capital * MAX_POSITION_SIZE

\* min(initial_capital * MAX_POSITION_SIZE, current_capital * 0.1), times 100.
position_size(cap) == Min(initial_capital * MAX_POSITION_SIZE, cap * CASH_FRACTION)

\* price_data.loc[date_str, stock_id] if stock_id in price_data.columns else nan
PriceOf(prices, stock_id) ==
    IF stock_id \in DOMAIN prices THEN prices[stock_id] ELSE NaN

\* The entry guard of line 134: the price is missing or zero.
NoPrice(current_price) == IsNaN(current_price) \/ current_price = 0

\* Variant of SharesFor that rounds the share count up.
SharesFor_RoundedUp(cap, current_price) ==
    Trunc(position_size(cap), current_price * 100) + 1

\* int(position_size / current_price)
SharesFor(cap, current_price) == Trunc(position_size(cap), current_price * 100)

\* The holding opened at line 144.
NewHolding(signal, shares, current_price, date) ==
    [stock_id |-> signal.stock_id, shares |-> shares, entry_price |-> current_price,
     entry_date |-> date, signal_grade |-> signal.signal_grade,
     expected_return |-> signal.expected_return, stop_loss |-> signal.stop_loss,
     holding_days |-> signal.holding_days]

\* Variant of EnterOne without the `stock_id in holdings` test of line 122.
EnterOne_NoHeldCheck(signal, st, prices, date) ==
    LET current_price == PriceOf(prices, signal.stock_id)
        shares == SharesFor(st.current_capital, current_price)
    IN  IF NoPrice(current_price) THEN st
        ELSE IF shares > 0
             THEN [current_capital |-> st.current_capital - shares * current_price,
                   holdings |-> Append(st.holdings,
                                       NewHolding(signal, shares, current_price, date))]
             ELSE st

\* One pass of the loop body of lines 119-154 for one BUY row.
EnterOne(signal, st, prices, date) ==
    LET current_price == PriceOf(prices, signal.stock_id)
        shares == SharesFor(st.current_capital, current_price)
    IN  IF Held(st.holdings, signal.stock_id) THEN st
        ELSE IF NoPrice(current_price) THEN st
        ELSE IF shares > 0
             THEN [current_capital |-> st.current_capital - shares * current_price,
                   holdings |-> Append(st.holdings,
                                       NewHolding(signal, shares, current_price, date))]
             ELSE st

\* The loop of lines 119-154 over the BUY rows, in order.
RECURSIVE ProcessBuys(_, _, _, _)
ProcessBuys(buys, st, prices, date) ==
    IF buys = <<>> THEN st
    ELSE ProcessBuys(Tail(buys), EnterOne(Head(buys), st, prices, date), prices, date)

\* ---------------------------------------------------- exits (lines 156-229)

\* signals[signals[stock] == stock_id]
RowsOf(rows, stock_id) ==
    LET Same(r) == r.stock_id = stock_id IN SelectSeq(rows, Same)

\* Variant of SellSignalled that reads the first row of the whole frame.
SellSignalled_FirstRowOfFrame(rows, stock_id) ==
    /\ rows # <<>>
    /\ rows[1].stock_id = stock_id
    /\ rows[1].signal_type = "SELL"

\* Lines 194-196: the frame has rows for the instrument and the first is a SELL.
SellSignalled(rows, stock_id) ==
    /\ RowsOf(rows, stock_id) # <<>>
    /\ RowsOf(rows, stock_id)[1].signal_type = "SELL"

\* pnl_pct >= expected_return / 100, with pnl_pct = (price - entry) / entry and
\* entry > 0 (an entry price is a price that bought at least one share).
TargetHit(holding, current_price) ==
    (current_price - holding.entry_price) * 100 >= holding.expected_return * holding.entry_price

\* pnl_pct <= stop_loss / 100
StopHit(holding, current_price) ==
    (current_price - holding.entry_price) * 100 <= holding.stop_loss * holding.entry_price

\* (current_date - entry_date).days >= holding['holding_days']
TimeHit(holding, date) == date - holding.entry_date >= holding.holding_days

\* entry_price * (1 + expected_return / 100)
TargetPrice(holding) == (holding.entry_price * (100 + holding.expected_return)) \div 100

\* entry_price * (1 + stop_loss / 100)
StopPrice(holding) == (holding.entry_price * (100 + holding.stop_loss)) \div 100

\* Variant of ExitDecision that tests the SELL row before the stop-loss.
ExitDecision_SignalFirst(holding, current_price, date, rows) ==
    IF TargetHit(holding, current_price)
      THEN [exit_reason |-> "target", exit_price |-> TargetPrice(holding)]
    ELSE IF SellSignalled(rows, holding.stock_id)
      THEN [exit_reason |-> "signal", exit_price |-> current_price]
    ELSE IF StopHit(holding, current_price)
      THEN [exit_reason |-> "stop_loss", exit_price |-> StopPrice(holding)]
    ELSE IF TimeHit(holding, date)
      THEN [exit_reason |-> "time", exit_price |-> current_price]
    ELSE [exit_reason |-> "none", exit_price |-> current_price]

\* Variant of ExitDecision that closes target and stop-loss exits at the live
\* price.
ExitDecision_LivePrice(holding, current_price, date, rows) ==
    IF TargetHit(holding, current_price)
      THEN [exit_reason |-> "target", exit_price |-> current_price]
    ELSE IF StopHit(holding, current_price)
      THEN [exit_reason |-> "stop_loss", exit_price |-> current_price]
    ELSE IF TimeHit(holding, date)
      THEN [exit_reason |-> "time", exit_price |-> current_price]
    ELSE IF SellSignalled(rows, holding.stock_id)
      THEN [exit_reason |-> "signal", exit_price |-> current_price]
    ELSE [exit_reason |-> "none", exit_price |-> current_price]

\* The if/elif chain of lines 176-198: the exit reason ("none": no exit) and
\* the exit price.
ExitDecision(holding, current_price, date, rows) ==
    IF TargetHit(holding, current_price)
      THEN [exit_reason |-> "target", exit_price |-> TargetPrice(holding)]
    ELSE IF StopHit(holding, current_price)
      THEN [exit_reason |-> "stop_loss", exit_price |-> StopPrice(holding)]
    ELSE IF TimeHit(holding, date)
      THEN [exit_reason |-> "time", exit_price |-> current_price]
    ELSE IF SellSignalled(rows, holding.stock_id)
      THEN [exit_reason |-> "signal", exit_price |-> current_price]
    ELSE [exit_reason |-> "none", exit_price |-> current_price]

\* exit_proceeds = holding['shares'] * exit_price
ExitProceeds(holding, exit_price) == holding.shares * exit_price

\* The Trade of lines 205-220 (pnl_pct, a ratio, is left out).
MakeTrade(holding, date, d) ==
    [stock_id |-> holding.stock_id, entry_date |-> holding.entry_date,
     exit_date |-> date, entry_price |-> holding.entry_price,
     exit_price |-> d.exit_price, shares |-> holding.shares,
     signal_type |-> "BUY", signal_grade |-> holding.signal_grade,
     expected_return |-> holding.expected_return, stop_loss |-> holding.stop_loss,
     pnl |-> ExitProceeds(holding, d.exit_price) - holding.entry_price * holding.shares,
     exit_reason |-> d.exit_reason, holding_days |-> date - holding.entry_date]

\* One pass of the loop body of lines 158-225 for one holding.
\* st = [current_capital, trades, stocks_to_remove].
ExitOne(holding, st, prices, date, rows) ==
    LET current_price == prices[holding.stock_id]
        d == ExitDecision(holding, current_price, date, rows)
    IN  IF holding.stock_id \notin DOMAIN prices THEN st
        ELSE IF NoPrice(current_price) THEN st
        ELSE IF d.exit_reason # "none"
             THEN [current_capital |-> st.current_capital + ExitProceeds(holding, d.exit_price),
                   trades |-> Append(st.trades, MakeTrade(holding, date, d)),
                   stocks_to_remove |-> st.stocks_to_remove \cup {holding.stock_id}]
             ELSE st

\* The loop of lines 158-225 over holdings.items(), in insertion order.
RECURSIVE ProcessExits(_, _, _, _, _)
ProcessExits(hold, st, prices, date, rows) ==
    IF hold = <<>> THEN st
    ELSE ProcessExits(Tail(hold), ExitOne(Head(hold), st, prices, date, rows),
                      prices, date, rows)

\* Variant of RemoveExited that deletes nothing.
RemoveExited_KeepAll(hold, stocks_to_remove) == hold

\* Lines 228-229: del holdings[stock_id] for every exited instrument.
RemoveExited(hold, stocks_to_remove) ==
    LET Kept(h) == h.stock_id \notin stocks_to_remove IN SelectSeq(hold, Kept)

\* ------------------------------------------------ valuation (lines 231-237)

\* sum(price_data.loc[date_str, stock_id] * holding['shares'] for ... if
\* stock_id in price_data.columns ...): a missing price makes the sum NaN.
RECURSIVE holding_value(_, _)
holding_value(hold, prices) ==
    IF hold = <<>> THEN 0
    ELSE LET h == Head(hold)
             rest == holding_value(Tail(hold), prices)
         IN  IF h.stock_id \in DOMAIN prices
             THEN NanAdd(NanMul(prices[h.stock_id], h.shares), rest)
             ELSE rest

\* equity_curve[date_str] = value
Point(date, value) == [date |-> date, value |-> value]

\* ------------------------------------- _calculate_metrics (lines 255-319)

\* equity_curve.iloc[-1] if len(equity_curve) > 0 else self.initial_capital
\* (with trades, line 281 reads iloc[-1] of a curve that is then non-empty).
FinalCapital(curve) ==
    IF Len(curve) > 0 THEN curve[Len(curve)].value ELSE initial_capital

Winning(t) == t.pnl > 0
Losing(t) == t.pnl <= 0

\* A metric whose value needs a root or a power is kept as the expression that
\* defines it: the operation and its integer operands. ExprZero is the literal 0.
Expr(op, args) == [op |-> op, args |-> args]
ExprZero == Expr("const", <<0>>)

\* days = (end_date - start_date).days; the run starts on day 1 (lines 285-286).
RunDays == end_date - 1

\* (final_capital / initial_capital) ** (1 / years) - 1 if years > 0 else 0
\* with years = days / 365 (lines 287-288).
annual_return(final, days) ==
    IF days > 0 THEN Expr("pow(final/initial, 365/days) - 1", <<final, initial_capital, days>>)
    ELSE ExprZero

\* (final_capital - initial_capital) / initial_capital (line 282); the division
\* of a number by 0 does not occur, a run with a trade has initial_capital > 0.
total_return(final) ==
    IF IsNaN(final) \/ initial_capital = 0 THEN NanRatio
    ELSE Ratio(final - initial_capital, initial_capital)

Values(curve) == [i \in 1..Len(curve) |-> curve[i].value]

\* pct_change().dropna() has an entry for day i > 1 when neither day's value is
\* missing; its value is v[i] / v[i-1] - 1 (line 296).  After a value of 0 the
\* entry is infinite, or missing when the day's value is 0 too.
ReturnDays(v) == {i \in 2..Len(v) : ~IsNaN(v[i]) /\ ~IsNaN(v[i-1]) /\ v[i-1] # 0}
InfReturn(v) == \E i \in 2..Len(v) : ~IsNaN(v[i]) /\ v[i] # 0 /\ v[i-1] = 0
SameReturn(v, i, j) == Reduced(v[i], v[i-1]) = Reduced(v[j], v[j-1])

\* daily_returns.std() > 0: at least two returns, not all of them equal; the
\* deviation of a series with an infinite entry is NaN, which is not > 0.
StdPositive(v) ==
    /\ ~InfReturn(v)
    /\ \E i, j \in ReturnDays(v) : i # j /\ ~SameReturn(v, i, j)

\* (mean / std) * sqrt(252) if std > 0 else 0 (line 297).
sharpe_ratio(v) ==
    IF StdPositive(v) THEN Expr("mean/std*sqrt(252) of pct_change", v) ELSE ExprZero

\* cummax()[i]: the largest value up to day i, missing where the value of day i
\* is missing (line 300).
Cummax(v, i) ==
    IF IsNaN(v[i]) THEN NaN
    ELSE CHOOSE m \in {v[j] : j \in 1..i} :
             \A j \in 1..i : IsNaN(v[j]) \/ v[j] <= m

\* drawdown[i] = (equity_curve[i] - cummax[i]) / cummax[i] (line 301): 0 / 0
\* is NaN and a negative number over 0 is -inf.
Drawdown(v, i) ==
    IF IsNaN(v[i]) THEN NanRatio
    ELSE IF Cummax(v, i) = 0 THEN (IF v[i] = 0 THEN NanRatio ELSE NegInf)
    ELSE Reduced(v[i] - Cummax(v, i), Cummax(v, i))

\* Variant of max_drawdown that measures every day against the first day's
\* value instead of the running maximum.
max_drawdown_FromFirstDay(v) ==
    LET days == {i \in 1..Len(v) : ~IsNaN(v[i]) /\ ~IsNaN(v[1]) /\ v[i] <= v[1]}
    IN  IF days = {} \/ v[1] = 0 THEN NanRatio
        ELSE LET i == CHOOSE i \in days : \A j \in days : v[i] <= v[j]
             IN  Reduced(v[i] - v[1], v[1])

\* drawdown.min(): the smallest drawdown that is not missing (line 302).
max_drawdown(v) ==
    LET days == {i \in 1..Len(v) : ~Drawdown(v, i).nan}
    IN  IF days = {} THEN NanRatio
        ELSE IF \E i \in days : Drawdown(v, i) = NegInf THEN NegInf
        ELSE LET i == CHOOSE i \in days :
                          \A j \in days : ~RatioLess(Drawdown(v, j), Drawdown(v, i))
             IN  Drawdown(v, i)

\* Variant of _calculate_metrics whose early return reports the initial
\* capital whatever the curve holds.
_calculate_metrics_InitialCapitalWhenNoTrades(trs, curve) ==
    [initial_capital |-> initial_capital,
     final_capital   |-> IF Len(trs) = 0 THEN initial_capital ELSE FinalCapital(curve),
     total_trades    |-> Len(trs),
     winning_trades  |-> Len(SelectSeq(trs, Winning)),
     losing_trades   |-> Len(SelectSeq(trs, Losing)),
     win_rate        |-> IF Len(trs) = 0 THEN ZeroRatio
                         ELSE Reduced(Len(SelectSeq(trs, Winning)), Len(trs)),
     total_return    |-> IF Len(trs) = 0 THEN ZeroRatio ELSE total_return(FinalCapital(curve)),
     annual_return   |-> IF Len(trs) = 0 THEN ExprZero
                         ELSE annual_return(FinalCapital(curve), RunDays),
     sharpe_ratio    |-> IF Len(trs) = 0 THEN ExprZero ELSE sharpe_ratio(Values(curve)),
     max_drawdown    |-> IF Len(trs) = 0 THEN ZeroRatio ELSE max_drawdown(Values(curve)),
     trades          |-> trs,
     equity_curve    |-> curve]

\* The early return of lines 262-278 when there is no trade, lines 281-319
\* otherwise.
_calculate_metrics(trs, curve) ==
    [initial_capital |-> initial_capital,
     final_capital   |-> FinalCapital(curve),
     total_trades    |-> Len(trs),
     winning_trades  |-> Len(SelectSeq(trs, Winning)),
     losing_trades   |-> Len(SelectSeq(trs, Losing)),
     win_rate        |-> IF Len(trs) = 0 THEN ZeroRatio
                         ELSE Reduced(Len(SelectSeq(trs, Winning)), Len(trs)),
     total_return    |-> IF Len(trs) = 0 THEN ZeroRatio ELSE total_return(FinalCapital(curve)),
     annual_return   |-> IF Len(trs) = 0 THEN ExprZero
                         ELSE annual_return(FinalCapital(curve), RunDays),
     sharpe_ratio    |-> IF Len(trs) = 0 THEN ExprZero ELSE sharpe_ratio(Values(curve)),
     max_drawdown    |-> IF Len(trs) = 0 THEN ZeroRatio ELSE max_drawdown(Values(curve)),
     trades          |-> trs,
     equity_curve    |-> curve]

\* ---------------------------------------------------------------- actions

\* The cells of a day's row that the run can depend on: those of the
\* instruments held when the day starts and of the instruments of the day's BUY
\* rows.  No other cell is read (lines 132, 162, 233), so the rows drawn for a
\* day leave every other cell missing.
Relevant(hold, rows) ==
    { s \in Columns : Held(hold, s) \/ \E i \in 1..Len(rows) :
                                          IsBuy(rows[i]) /\ rows[i].stock_id = s }

\* The price history after one more row.
Seen(last, prices) ==
    [s \in DOMAIN prices |-> IF IsNaN(prices[s]) THEN last[s] ELSE prices[s]]

DayRows(hold, rows) ==
    { r \in PriceRows : \A s \in Columns \ Relevant(hold, rows) : IsNaN(r[s]) }

\* No bundle, and no instrument, has been read yet.
NoBundle == [kind |-> "none", fields |-> {}, latest_empty |-> TRUE]
NoInstrument ==
    [stock_id |-> "none",
     data |-> [current_price |-> NaN,
               margin |-> [in_margin |-> FALSE, margin_balance |-> NaN,
                           has_prev_margin |-> FALSE, prev_margin |-> NaN],
               short |-> [has_short |-> FALSE, short_balance |-> NaN,
                          has_prev_short |-> FALSE, prev_short |-> NaN],
               rsi |-> NaN, ma20 |-> NaN]]

\* No analysis is running.
AnalysisIdle ==
    /\ an_pc = "idle"
    /\ margin_data = NoBundle
    /\ indicators = "none"
    /\ stock_index = 0
    /\ cur = NoInstrument
    /\ detected = <<>>
    /\ skipped = {}
    /\ returned = <<>>

\* No call of calculate_rsi is running.
RsiIdle ==
    /\ rsi_pc = "idle"
    /\ rsi_prices = <<>>
    /\ rsi_period = 0
    /\ rsi_out = <<>>

\* main() is not running.
MainIdle ==
    /\ m_pc = "idle"
    /\ m_signals = <<>>
    /\ m_sent = <<>>
    /\ m_returned = {}
    /\ m_raised = FALSE
    /\ m_exit = "none"

\* No decorated function is being called.
RetryIdle ==
    /\ retry_pc = "idle"
    /\ max_attempts = 0
    /\ delay = 0
    /\ backoff = 0
    /\ attempt = 0
    /\ current_delay = 0
    /\ outcomes = <<>>
    /\ slept = <<>>
    /\ propagated = 0

\* None of the operations modelled after the filter is running.
OthersIdle == RsiIdle /\ MainIdle /\ RetryIdle

\* No filter call is running.
FilterIdle ==
    /\ f_pc = "idle"
    /\ f_signals = <<>>
    /\ f_result = <<>>

Init ==
    /\ AnalysisIdle
    /\ FilterIdle
    /\ OthersIdle
    /\ pc = "start"
    /\ price_data_empty \in BOOLEAN
    /\ strategy_calls = 0
    /\ \E run \in Runs : /\ initial_capital = run.initial_capital
                         /\ profile = run.profile
    /\ end_date \in 1..MaxDays
    /\ current_date = 0
    /\ price_index = {}
    /\ row = [s \in Columns |-> NaN]
    /\ signals = NoneSignals
    /\ current_capital = initial_capital
    /\ last_valid = [s \in Columns |-> NaN]
    /\ holdings = <<>>
    /\ trades = <<>>
    /\ equity_curve = <<>>
    /\ results = <<>>

\* Variant of RaiseNoData that degrades silently: no check of price_data.empty,
\* the loop skips every day and the metrics of an empty curve are returned.
RaiseNoData_ReturnsEmptyResult ==
    /\ pc = "start"
    /\ price_data_empty
    /\ pc' = "done"
    /\ current_date' = end_date
    /\ results' = <<_calculate_metrics(trades, equity_curve)>>
    /\ UNCHANGED <<avars, fvars, xvars, price_data_empty, strategy_calls, initial_capital, profile,
                   end_date, price_index, row, signals, current_capital,
                   holdings, trades, equity_curve, last_valid>>

\* Lines 87-91: the price table is empty; run_backtest raises ValueError.
RaiseNoData ==
    /\ pc = "start"
    /\ price_data_empty
    /\ pc' = "raised"
    /\ UNCHANGED <<avars, fvars, xvars, price_data_empty, strategy_calls, initial_capital, profile, end_date, current_date, price_index,
                   row, signals, current_capital, holdings, trades, equity_curve,
                   last_valid, results>>

\* Lines 87-100: the price table is not empty; the loop starts.
StartLoop ==
    /\ pc = "start"
    /\ ~price_data_empty
    /\ pc' = "loop"
    /\ UNCHANGED <<avars, fvars, xvars, price_data_empty, strategy_calls, initial_capital, profile, end_date, current_date, price_index,
                   row, signals, current_capital, holdings, trades, equity_curve,
                   last_valid, results>>

\* Variant of SkipDay that records a point carrying the last value forward.
SkipDay_CarryForward ==
    /\ pc = "loop"
    /\ current_date < end_date
    /\ current_date' = current_date + 1
    /\ equity_curve' =
          Append(equity_curve,
                 Point(current_date + 1,
                       IF equity_curve = <<>> THEN current_capital
                       ELSE equity_curve[Len(equity_curve)].value))
    /\ UNCHANGED <<avars, fvars, xvars, price_data_empty, strategy_calls, pc, initial_capital, profile, end_date, price_index, row,
                   signals, current_capital, holdings, trades, last_valid, results>>

\* Lines 103-108: the day is not in price_data.index; continue.
SkipDay ==
    /\ pc = "loop"
    /\ current_date < end_date
    /\ current_date' = current_date + 1
    /\ UNCHANGED <<avars, fvars, xvars, price_data_empty, strategy_calls, pc, initial_capital, profile, end_date, price_index, row,
                   signals, current_capital, holdings, trades, equity_curve,
                   last_valid, results>>

\* Lines 103-115: the day has prices and strategy_func returns None or an
\* empty frame: the point is the cash, and the iteration ends.
NoSignalDay ==
    /\ pc = "loop"
    /\ current_date < end_date
    /\ \E prices \in DayRows(holdings, <<>>), sig \in {NoneSignals, Frame(<<>>)} :
          /\ row' = prices
          /\ last_valid' = Seen(last_valid, prices)
          /\ signals' = sig
    /\ current_date' = current_date + 1
    /\ price_index' = price_index \cup {current_date + 1}
    /\ equity_curve' = Append(equity_curve, Point(current_date + 1, current_capital))
    /\ strategy_calls' = strategy_calls + 1
    /\ UNCHANGED <<avars, fvars, xvars, price_data_empty, pc, initial_capital, profile, end_date, current_capital, holdings,
                   trades, results>>

\* Lines 103-237: the day has prices and strategy_func returns rows: entries,
\* exits, removal of the exited holdings, valuation.
\* One iteration of the loop of lines 103-237 on a day with a price row `prices`
\* for which the callback returned the rows `rows`.
DayStep(rows, prices) ==
    \* the state after the entries, and the state after the exits
    \E entered \in {ProcessBuys(buy_signals(rows),
                                 [current_capital |-> current_capital,
                                  holdings |-> holdings],
                                 prices, current_date + 1)} :
    \E exited \in {ProcessExits(entered.holdings,
                                 [current_capital |-> entered.current_capital,
                                  trades |-> trades,
                                  stocks_to_remove |-> {}],
                                 prices, current_date + 1, rows)} :
      LET date == current_date + 1
          remaining == RemoveExited(entered.holdings, exited.stocks_to_remove)
      IN  /\ row' = prices
          /\ last_valid' = Seen(last_valid, prices)
          /\ signals' = Frame(rows)
          /\ current_date' = date
          /\ price_index' = price_index \cup {date}
          /\ current_capital' = exited.current_capital
          /\ holdings' = remaining
          /\ trades' = exited.trades
          /\ equity_curve' =
                Append(equity_curve,
                       Point(date, NanAdd(exited.current_capital,
                                          holding_value(remaining, prices))))

TradingDay ==
    /\ pc = "loop"
    /\ current_date < end_date
    /\ \E rows \in SignalFrames(profile) : \E prices \in DayRows(holdings, rows) :
          DayStep(rows, prices)
    /\ strategy_calls' = strategy_calls + 1
    /\ UNCHANGED <<avars, fvars, xvars, price_data_empty, pc, initial_capital, profile,
                   end_date, results>>

\* Lines 103-111 and 251-253: the day has prices and strategy_func raises; the
\* handler logs the exception and raises it again, so run_backtest returns
\* nothing.
StrategyRaises ==
    /\ pc = "loop"
    /\ current_date < end_date
    /\ strategy_calls' = strategy_calls + 1
    /\ pc' = "raised"
    /\ UNCHANGED <<avars, fvars, xvars, price_data_empty, initial_capital, profile, end_date,
                   current_date, price_index, row, signals, current_capital,
                   holdings, trades, equity_curve, last_valid, results>>

\* Lines 239-249: the loop is over; _calculate_metrics builds the result.
Finish ==
    /\ pc = "loop"
    /\ current_date = end_date
    /\ pc' = "done"
    /\ results' = <<_calculate_metrics(trades, equity_curve)>>
    /\ UNCHANGED <<avars, fvars, xvars, price_data_empty, strategy_calls, initial_capital, profile, end_date, current_date, price_index,
                   row, signals, current_capital, holdings, trades, equity_curve,
                   last_valid>>

Next ==
    \/ RaiseNoData
    \/ StartLoop
    \/ SkipDay
    \/ NoSignalDay
    \/ TradingDay
    \/ StrategyRaises
    \/ Finish

Spec == Init /\ [][Next]_allvars

\* ===========================================================================
\* The same loop on a price table of MAX_HOLDINGS + 2 instruments, with a
\* callback that returns BUY rows for a run of consecutive instruments.
\* ===========================================================================

WideColumns == <<"S01", "S02", "S03", "S04", "S05", "S06",
                 "S07", "S08", "S09", "S10", "S11", "S12">>

\* The day's frame: BUY rows for the instruments first..last of WideColumns, in
\* that order, for the ranges listed.
WideRanges == {<<1, 1>>, <<1, 2>>, <<1, 6>>, <<1, 10>>, <<1, 11>>, <<1, 12>>, <<7, 12>>}
WideFrames(p) ==
    { [i \in 1..(r[2] - r[1] + 1) |-> SignalRow(WideColumns[r[1] + i - 1], "BUY", p)] :
        r \in WideRanges }

\* The day's price row: every instrument at 100, or every instrument at 90.
WidePriceRows ==
    { [s \in {WideColumns[i] : i \in 1..Len(WideColumns)} |-> x] : x \in {10000, 9000} }

\* The runs explored on the wide table: those of Runs, and a run with capital
\* 100000 whose callback writes an expected return of -1100 % in its rows.
WideRuns ==
    Runs \cup
    { [initial_capital |-> 10000000,
       profile |-> [signal_grade |-> "A", expected_return |-> -1100,
                    stop_loss |-> -8, holding_days |-> 5]] }

WideInit ==
    /\ AnalysisIdle
    /\ FilterIdle
    /\ OthersIdle
    /\ pc = "start"
    /\ price_data_empty = FALSE
    /\ strategy_calls = 0
    /\ \E run \in WideRuns : /\ initial_capital = run.initial_capital
                         /\ profile = run.profile
    /\ end_date \in 1..MaxDays
    /\ current_date = 0
    /\ price_index = {}
    /\ row = [s \in {WideColumns[i] : i \in 1..Len(WideColumns)} |-> NaN]
    /\ signals = NoneSignals
    /\ current_capital = initial_capital
    /\ last_valid = [s \in {WideColumns[i] : i \in 1..Len(WideColumns)} |-> NaN]
    /\ holdings = <<>>
    /\ trades = <<>>
    /\ equity_curve = <<>>
    /\ results = <<>>

WideTradingDay ==
    /\ pc = "loop"
    /\ current_date < end_date
    /\ \E rows \in WideFrames(profile) : \E prices \in WidePriceRows :
          DayStep(rows, prices)
    /\ strategy_calls' = strategy_calls + 1
    /\ UNCHANGED <<avars, fvars, xvars, price_data_empty, pc, initial_capital, profile,
                   end_date, results>>

WideNext ==
    \/ StartLoop
    \/ WideTradingDay
    \/ Finish

SpecWide == WideInit /\ [][WideNext]_allvars

\* ================================================================ analysis
\* MarginMomentumAnalyzer (src/src/margin_momentum_analyzer.py): analyze
\* (lines 80-127) and _detect_margin_anomalies (lines 129-235).
\*
\* One step is the whole of analyze, the head of the detector (lines 144-155),
\* one iteration of its loop over price_data.columns (158-233), or its return
\* (235).  Prices, balances and indicator values are whole numbers; a ratio
\* (margin_pct_change, short_pct_change, price_vs_ma20) is kept exactly, as a
\* numerator and a positive denominator, and compared with a threshold given
\* in percent by cross-multiplication.

\* ------------------------------------------------------- program constants

\* Config.MARGIN_INCREASE_THRESHOLD = 0.10 and Config.SHORT_INCREASE_THRESHOLD
\* = 0.10, as percentages.
MARGIN_INCREASE_THRESHOLD == 10
SHORT_INCREASE_THRESHOLD == 10

\* Config.RSI_OVERSOLD and Config.RSI_OVERBOUGHT.
RSI_OVERSOLD == 30
RSI_OVERBOUGHT == 70

\* ------------------------------------------------------------- input sets

\* price_data.columns, in order.
AnColumns == <<"X", "Y", "Z">>

\* What api.get_margin_data() returns (api_helper.py, lines 81-132): a dict
\* with one entry per data set that could be fetched, possibly none.
\* `fields` are the keys the detector reads that the mapping holds, and
\* latest_empty tells whether the today's-financing-balance table has no rows.
MarginBundles ==
    { [kind |-> "dict", fields |-> {}, latest_empty |-> TRUE],
      [kind |-> "dict", fields |-> {"prev_margin", "latest_short", "prev_short"},
       latest_empty |-> TRUE],
      [kind |-> "dict",
       fields |-> {"latest_margin", "prev_margin", "latest_short", "prev_short"},
       latest_empty |-> TRUE],
      [kind |-> "dict",
       fields |-> {"latest_margin", "prev_margin", "latest_short", "prev_short"},
       latest_empty |-> FALSE] }

\* What the rsi and ma20 arguments of the detector are keyed by.  "by_date":
\* the Series analyze builds at lines 108-111 from the first price column,
\* indexed by date.  "by_instrument": objects in which the lookups of lines
\* 181-182 find the instrument and return its indicator.
IndicatorShapes == {"by_date", "by_instrument"}

\* Last close and 20-day average of an instrument: a close that is missing,
\* zero, negative, or 92, 95, 103 against an average of 100 (-8%, -5%, +3%),
\* and closes of 92 and 103 with no average.
AnPrices ==
    { [current_price |-> p, ma20 |-> 100] : p \in {NaN, 0, -50, 92, 95, 103} } \cup
    { [current_price |-> p, ma20 |-> NaN] : p \in {92, 103} }

\* Last RSI of an instrument: oversold values and none; overbought values.
RsiLow == {NaN, 22, 25, 30}
RsiHigh == {70, 72, 80}

\* Financing data of an instrument: no column in the today's-balance table; or
\* today's balance 120, 115, 110 against 100 the day before (+20%, +15%, +10%);
\* or 120 with no previous-day figure; or 120 against a previous balance of 0.
MarginCases ==
    { [in_margin |-> FALSE, margin_balance |-> NaN, has_prev_margin |-> FALSE,
       prev_margin |-> NaN] } \cup
    { [in_margin |-> TRUE, margin_balance |-> b, has_prev_margin |-> TRUE,
       prev_margin |-> 100] : b \in {120, 115, 110} } \cup
    { [in_margin |-> TRUE, margin_balance |-> 120, has_prev_margin |-> FALSE,
       prev_margin |-> NaN],
      [in_margin |-> TRUE, margin_balance |-> 120, has_prev_margin |-> TRUE,
       prev_margin |-> 0] }

\* Short-selling data of an instrument: no column; or today's balance 120, 112,
\* 110 against 100 (+20%, +12%, +10%); or 120 with no previous-day figure; or
\* 120 against 0; or a missing cell today.
ShortCases ==
    { [has_short |-> FALSE, short_balance |-> NaN, has_prev_short |-> FALSE,
       prev_short |-> NaN] } \cup
    { [has_short |-> TRUE, short_balance |-> b, has_prev_short |-> TRUE,
       prev_short |-> 100] : b \in {120, 112, 110, NaN} } \cup
    { [has_short |-> TRUE, short_balance |-> 120, has_prev_short |-> FALSE,
       prev_short |-> NaN],
      [has_short |-> TRUE, short_balance |-> 120, has_prev_short |-> TRUE,
       prev_short |-> 0] }

\* The data of one instrument: its last close, its financing and short-selling
\* figures, and the last RSI and 20-day average of its own price series.  The
\* instruments drawn are those with a low RSI, any financing data, and short
\* data that is absent or has a missing cell; and those with a high RSI, any
\* short data, and financing data that is absent or grew by 10%.
InstrumentData ==
    { [current_price |-> p.current_price, margin |-> m, short |-> s, rsi |-> r,
       ma20 |-> p.ma20] :
        p \in AnPrices, m \in MarginCases,
        s \in { c \in ShortCases : ~c.has_short \/ IsNaN(c.short_balance) },
        r \in RsiLow } \cup
    { [current_price |-> p.current_price, margin |-> m, short |-> s, rsi |-> r,
       ma20 |-> p.ma20] :
        p \in { q \in AnPrices : q.current_price \in {0, 92, 103} },
        m \in { c \in MarginCases : ~c.in_margin \/ c.margin_balance = 110 },
        s \in ShortCases, r \in RsiHigh }

\* ------------------------------------------------ analyze (lines 80-127)

\* hasattr(x, 'empty'): a DataFrame has the attribute, a dict has not.
HasEmpty(x) == x.kind = "DataFrame"

\* Lines 98-127.  margin_data is the dict of get_margin_data, so the test
\* `margin_data.empty` of line 102 raises AttributeError, which the handler of
\* lines 125-127 logs and raises again.
analyze(bundle, price_empty) ==
    IF ~HasEmpty(bundle) THEN "raise"
    ELSE IF bundle.latest_empty \/ price_empty THEN "return_empty"
    ELSE "detect"

\* ----------------------------- _detect_margin_anomalies (lines 129-235)

\* ratio > pct / 100 and ratio < pct / 100; a comparison with NaN is false.
Above(r, pct) == ~r.nan /\ r.num * 100 > pct * r.den
Below(r, pct) == ~r.nan /\ r.num * 100 < pct * r.den

\* Lines 170 and 175: (balance - prev) / prev if prev > 0 else 0.
pct_change(balance, prev) ==
    IF IsNaN(prev) \/ prev <= 0 THEN ZeroRatio
    ELSE IF IsNaN(balance) THEN NanRatio
    ELSE Ratio(balance - prev, prev)

\* Line 183: (current_price - ma20_value) / ma20_value if ma20_value is not
\* missing and > 0, else 0.
price_vs_ma20(current_price, ma20_value) ==
    IF ~IsNaN(ma20_value) /\ ma20_value > 0
    THEN Ratio(current_price - ma20_value, ma20_value)
    ELSE ZeroRatio

\* Line 181: rsi[stock_id].iloc[-1] if stock_id in rsi.index else np.nan.  The
\* index of a Series keyed by date holds no instrument.
rsi_lookup(shape, d) == IF shape = "by_instrument" THEN d.rsi ELSE NaN

\* Line 182: `stock_id in ma20.columns` raises AttributeError on a Series,
\* which has no attribute `columns`.
ma20_raises(shape) == shape = "by_date"

\* Lines 186-188.
BuyRule(margin_pct_change, rsi_value, pvm) ==
    /\ Above(margin_pct_change, MARGIN_INCREASE_THRESHOLD)
    /\ ~IsNaN(rsi_value) /\ rsi_value < RSI_OVERSOLD
    /\ Below(pvm, 0)

\* Line 190.
BuyGrade(margin_pct_change, rsi_value, pvm) ==
    IF Above(margin_pct_change, 15) /\ rsi_value < 25 /\ Below(pvm, -5)
    THEN "S" ELSE "A"

\* Lines 211-213.
SellRule(short_pct_change, rsi_value, pvm) ==
    /\ Above(short_pct_change, SHORT_INCREASE_THRESHOLD)
    /\ ~IsNaN(rsi_value) /\ rsi_value > RSI_OVERBOUGHT
    /\ Above(pvm, 0)

\* Line 219.
SellGrade(short_pct_change, rsi_value) ==
    IF Above(short_pct_change, 15) /\ rsi_value > 75 THEN "URGENT" ELSE "HIGH"

\* Lines 192-208: the BUY record (the columns read by the filter, the
\* notifier and the backtest).
BuySignal(stock_id, current_price, grade) ==
    [stock_id |-> stock_id, signal_type |-> "BUY", signal_grade |-> grade,
     current_price |-> current_price,
     expected_return |-> IF grade = "S" THEN 15 ELSE 10,
     stop_loss |-> -8, holding_days |-> 5]

\* Lines 215-229: the SELL record.
SellSignal(stock_id, current_price, grade) ==
    [stock_id |-> stock_id, signal_type |-> "SELL", signal_grade |-> grade,
     current_price |-> current_price]

\* Lines 199 and 201, 222 and 223: int() of a missing value raises ValueError.
int_raises(x) == IsNaN(x)

Skip == [raised |-> FALSE, rows |-> <<>>]
Raised == [raised |-> TRUE, rows |-> <<>>]
Emit(r) == [raised |-> FALSE, rows |-> <<r>>]

\* Lines 168-169 and 173-174: today's balance, and the previous day's balance,
\* which defaults to today's when the instrument has no previous-day figure.
\* An instrument without a short-selling column has balance 0.
MarginBalance(d) == d.margin.margin_balance
PrevMargin(d) ==
    IF d.margin.has_prev_margin THEN d.margin.prev_margin ELSE MarginBalance(d)
ShortBalance(d) == IF d.short.has_short THEN d.short.short_balance ELSE 0
PrevShort(d) ==
    IF d.short.has_prev_short THEN d.short.prev_short ELSE ShortBalance(d)

\* Variant of margin_pct_change in which an instrument without a positive
\* previous balance counts as having doubled.
margin_pct_change_NewIsGrowth(d) ==
    IF IsNaN(PrevMargin(d)) \/ PrevMargin(d) <= 0 \/ ~d.margin.has_prev_margin
    THEN Ratio(1, 1)
    ELSE pct_change(MarginBalance(d), PrevMargin(d))

margin_pct_change(d) == pct_change(MarginBalance(d), PrevMargin(d))
short_pct_change(d) == pct_change(ShortBalance(d), PrevShort(d))

\* Line 163: the instrument is skipped when its price is missing or zero.
BadPrice(current_price) == IsNaN(current_price) \/ current_price = 0

\* One pass of the loop body of lines 159-233 for one instrument: whether the
\* except handler of lines 231-233 ran, and the records appended to signals.
DetectOne(stock_id, d, shape) ==
    LET current_price == d.current_price
        rsi_value == rsi_lookup(shape, d)
        pvm == price_vs_ma20(current_price, d.ma20)
    IN  IF BadPrice(current_price) THEN Skip
        ELSE IF ~d.margin.in_margin THEN Skip
        ELSE IF ma20_raises(shape) THEN Raised
        ELSE IF BuyRule(margin_pct_change(d), rsi_value, pvm)
          THEN IF int_raises(MarginBalance(d)) \/ int_raises(ShortBalance(d))
               THEN Raised
               ELSE Emit(BuySignal(stock_id, current_price,
                                   BuyGrade(margin_pct_change(d), rsi_value, pvm)))
        ELSE IF SellRule(short_pct_change(d), rsi_value, pvm)
          THEN IF int_raises(MarginBalance(d)) \/ int_raises(ShortBalance(d))
               THEN Raised
               ELSE Emit(SellSignal(stock_id, current_price,
                                    SellGrade(short_pct_change(d), rsi_value)))
        ELSE Skip

\* --------------------------------------------------------------- actions

\* The backtest is not running.
BacktestIdle ==
    /\ pc = "idle"
    /\ price_data_empty = FALSE
    /\ strategy_calls = 0
    /\ initial_capital = 0
    /\ profile = [signal_grade |-> "A", expected_return |-> 10, stop_loss |-> -8,
                  holding_days |-> 5]
    /\ end_date = 0
    /\ current_date = 0
    /\ price_index = {}
    /\ row = [s \in Columns |-> NaN]
    /\ signals = NoneSignals
    /\ current_capital = 0
    /\ last_valid = [s \in Columns |-> NaN]
    /\ holdings = <<>>
    /\ trades = <<>>
    /\ equity_curve = <<>>
    /\ results = <<>>

AnalysisInit ==
    /\ BacktestIdle
    /\ FilterIdle
    /\ OthersIdle
    /\ an_pc = "start"
    /\ margin_data = NoBundle
    /\ indicators = "none"
    /\ stock_index = 0
    /\ cur = NoInstrument
    /\ detected = <<>>
    /\ skipped = {}
    /\ returned = <<>>

\* analyze (lines 80-127) as the program runs it, on the bundle of
\* get_margin_data: the test of line 102 raises, and analyze raises.
Analyze ==
    /\ an_pc = "start"
    /\ \E bundle \in MarginBundles, price_empty \in BOOLEAN :
          /\ analyze(bundle, price_empty) = "raise"
          /\ margin_data' = bundle
    /\ an_pc' = "raised"
    /\ UNCHANGED <<indicators, stock_index, cur, detected, skipped, returned>>
    /\ UNCHANGED <<vars, fvars, xvars>>

\* Lines 144-147 of a call of _detect_margin_anomalies: the bundle has no
\* today's-financing-balance table, or an empty one; the detector returns an
\* empty frame.
DetectNoMargin ==
    /\ an_pc = "start"
    /\ \E bundle \in MarginBundles, shape \in IndicatorShapes :
          /\ "latest_margin" \notin bundle.fields \/ bundle.latest_empty
          /\ margin_data' = bundle
          /\ indicators' = shape
    /\ an_pc' = "returned"
    /\ returned' = << <<>> >>
    /\ UNCHANGED <<stock_index, cur, detected, skipped>>
    /\ UNCHANGED <<vars, fvars, xvars>>

\* Lines 144-155 of a call of _detect_margin_anomalies: the tables are taken
\* from the bundle and the loop starts.
DetectStart ==
    /\ an_pc = "start"
    /\ \E bundle \in MarginBundles, shape \in IndicatorShapes :
          /\ ~("latest_margin" \notin bundle.fields \/ bundle.latest_empty)
          /\ margin_data' = bundle
          /\ indicators' = shape
    /\ an_pc' = "loop"
    /\ UNCHANGED <<stock_index, cur, detected, skipped, returned>>
    /\ UNCHANGED <<vars, fvars, xvars>>

\* Variant of DetectStep in which an exception leaves the loop and the
\* detector.
DetectStep_Propagates ==
    /\ an_pc = "loop"
    /\ stock_index < Len(AnColumns)
    /\ \E d \in InstrumentData :
        \E out \in {DetectOne(AnColumns[stock_index + 1], d, indicators)} :
          LET stock_id == AnColumns[stock_index + 1]
          IN  /\ cur' = [stock_id |-> stock_id, data |-> d]
              /\ detected' = detected \o out.rows
              /\ skipped' = IF out.raised THEN skipped \cup {stock_id} ELSE skipped
              /\ an_pc' = IF out.raised THEN "raised" ELSE "loop"
    /\ stock_index' = stock_index + 1
    /\ UNCHANGED <<margin_data, indicators, returned>>
    /\ UNCHANGED <<vars, fvars, xvars>>

\* Lines 158-233: one iteration of the loop over price_data.columns.
DetectStep ==
    /\ an_pc = "loop"
    /\ stock_index < Len(AnColumns)
    /\ \E d \in InstrumentData :
        \E out \in {DetectOne(AnColumns[stock_index + 1], d, indicators)} :
          LET stock_id == AnColumns[stock_index + 1]
          IN  /\ cur' = [stock_id |-> stock_id, data |-> d]
              /\ detected' = detected \o out.rows
              /\ skipped' = IF out.raised THEN skipped \cup {stock_id} ELSE skipped
    /\ stock_index' = stock_index + 1
    /\ UNCHANGED <<an_pc, margin_data, indicators, returned>>
    /\ UNCHANGED <<vars, fvars, xvars>>

\* Line 235: the loop is over; the detector returns the frame of its signals.
DetectReturn ==
    /\ an_pc = "loop"
    /\ stock_index = Len(AnColumns)
    /\ an_pc' = "returned"
    /\ returned' = <<detected>>
    /\ UNCHANGED <<margin_data, indicators, stock_index, cur, detected, skipped>>
    /\ UNCHANGED <<vars, fvars, xvars>>

AnalysisNext ==
    \/ Analyze
    \/ DetectNoMargin
    \/ DetectStart
    \/ DetectStep
    \/ DetectReturn

SpecAnalysis == AnalysisInit /\ [][AnalysisNext]_allvars

\* ================================================================== filter
\* MarginMomentumAnalyzer.filter_signals (src/src/margin_momentum_analyzer.py, lines
\* 237-258).  A frame of signals is a sequence of rows; a row carries its index
\* label (its position in the frame the detector built), its grade and its
\* price.  Prices are whole currency units.

\* Largest number of rows of the frame passed to filter_signals.
MaxSignals == 4

\* Points of a drawn equity curve.
MaxCurve == 3

\* Points of a drawn price series.
MaxSeries == 4

\* Largest max_attempts drawn for retry_on_failure.
MaxAttempts == 3

\* Config.MIN_STOCK_PRICE and Config.MAX_STOCK_PRICE.
MIN_STOCK_PRICE == 10
MAX_STOCK_PRICE == 500

\* Grade and price of the rows drawn: one row per grade, at 100, at the bounds
\* 10 and 500, and at 501 just outside; a row at 9; and a row with a missing
\* price.
FilterRows ==
    { [signal_grade |-> "S", current_price |-> 100],
      [signal_grade |-> "A", current_price |-> 500],
      [signal_grade |-> "B", current_price |-> 10],
      [signal_grade |-> "URGENT", current_price |-> 100],
      [signal_grade |-> "HIGH", current_price |-> 501],
      [signal_grade |-> "S", current_price |-> 9],
      [signal_grade |-> "A", current_price |-> NaN] }

\* The frames drawn: up to MaxSignals rows, labelled 1, 2, ... in order.
FilterFrames ==
    UNION { { [i \in 1..n |-> [index |-> i, signal_grade |-> q[i].signal_grade,
                               current_price |-> q[i].current_price]] :
                q \in [1..n -> FilterRows] } : n \in 0..MaxSignals }

\* Variant of InRange with exclusive bounds.
InRange_Exclusive(r) ==
    /\ ~IsNaN(r.current_price)
    /\ r.current_price > MIN_STOCK_PRICE
    /\ r.current_price < MAX_STOCK_PRICE

\* Lines 248-251: price >= MIN_STOCK_PRICE and price <= MAX_STOCK_PRICE; both
\* comparisons are false for a missing price.
InRange(r) ==
    /\ ~IsNaN(r.current_price)
    /\ r.current_price >= MIN_STOCK_PRICE
    /\ r.current_price <= MAX_STOCK_PRICE

\* Variant of grade_order that ranks the SELL grades before the BUY grades.
grade_order_SellFirst(g) ==
    CASE g = "URGENT" -> 0
      [] g = "HIGH" -> 1
      [] g = "S" -> 2
      [] g = "A" -> 3
      [] g = "B" -> 4
      [] OTHER -> NaN

\* Lines 254-255: signal_order, mapped over the grade column; a grade that is
\* not a key maps to a missing value.
grade_order(g) ==
    CASE g = "S" -> 0
      [] g = "A" -> 1
      [] g = "B" -> 2
      [] g = "URGENT" -> 3
      [] g = "HIGH" -> 4
      [] OTHER -> NaN

\* a may come before b in the order of sort_values: ascending, missing last.
MayPrecede(a, b) == IsNaN(b) \/ (~IsNaN(a) /\ a <= b)

\* The orders sort_values('grade_order') may return for the rows: line 256
\* leaves `kind` at its default, quicksort, which is not a stable sort, so rows
\* of equal grade_order may come out in any relative order.
sort_values(rows) ==
    { [i \in 1..Len(rows) |-> rows[q[i]]] :
        q \in { f \in [1..Len(rows) -> 1..Len(rows)] :
                  /\ \A i, j \in 1..Len(rows) : i # j => f[i] # f[j]
                  /\ \A i, j \in 1..Len(rows) :
                        i < j => MayPrecede(grade_order(rows[f[i]].signal_grade),
                                            grade_order(rows[f[j]].signal_grade)) } }

FilterInit ==
    /\ BacktestIdle
    /\ AnalysisIdle
    /\ OthersIdle
    /\ f_pc = "call"
    /\ f_signals \in FilterFrames
    /\ f_result = <<>>

\* Lines 244-245: the frame is empty and is returned as it is.
FilterEmpty ==
    /\ f_pc = "call"
    /\ f_signals = <<>>
    /\ f_pc' = "returned"
    /\ f_result' = f_signals
    /\ UNCHANGED f_signals
    /\ UNCHANGED <<vars, avars, xvars>>

\* Lines 247-258: the rows in the price range, sorted by grade_order.
FilterSignals ==
    /\ f_pc = "call"
    /\ f_signals # <<>>
    /\ f_pc' = "returned"
    /\ f_result' \in sort_values(SelectSeq(f_signals, InRange))
    /\ UNCHANGED f_signals
    /\ UNCHANGED <<vars, avars, xvars>>

FilterNext ==
    \/ FilterEmpty
    \/ FilterSignals

SpecFilter == FilterInit /\ [][FilterNext]_allvars

\* ===========================================================================
\* _calculate_metrics as a function of its arguments (lines 255-319): the trade
\* log and the equity curve are drawn from bounded sets and the operation is
\* applied once.
\* ===========================================================================

\* Values of one point of a drawn curve: missing, or an amount.
CurveValues == {NaN, 50, 100, 200}

\* Curves of 1..MaxCurve daily points; the first day's value is an amount (the
\* first valued day of a run holds only positions bought at that day's price).
Curves ==
    UNION { { [i \in 1..n |-> Point(i, v[i])] : v \in {w \in [1..n -> CurveValues] : ~IsNaN(w[1])} }
            : n \in 1..MaxCurve }

\* Trade logs of one closed trade, a winning or a losing one.
TradeLogs ==
    { << [stock_id |-> "A", entry_date |-> 1, exit_date |-> 1, entry_price |-> 100,
          exit_price |-> x, shares |-> 1, signal_type |-> "BUY", signal_grade |-> "A",
          expected_return |-> 10, stop_loss |-> -8, pnl |-> x - 100,
          exit_reason |-> "Signal", holding_days |-> 0] >> : x \in {92, 110} }

MetricsInit ==
    /\ AnalysisIdle
    /\ FilterIdle
    /\ OthersIdle
    /\ pc = "metrics"
    /\ price_data_empty = FALSE
    /\ strategy_calls = 0
    /\ initial_capital = 100
    /\ profile = [signal_grade |-> "A", expected_return |-> 10, stop_loss |-> -8,
                  holding_days |-> 5]
    /\ equity_curve \in Curves
    /\ trades \in TradeLogs
    /\ end_date = Len(equity_curve)
    /\ current_date = end_date
    /\ price_index = 1..end_date
    /\ row = [s \in Columns |-> NaN]
    /\ signals = NoneSignals
    /\ current_capital = 0
    /\ last_valid = [s \in Columns |-> NaN]
    /\ holdings = <<>>
    /\ results = <<>>

CalculateMetrics ==
    /\ pc = "metrics"
    /\ pc' = "done"
    /\ results' = <<_calculate_metrics(trades, equity_curve)>>
    /\ UNCHANGED <<avars, fvars, xvars, price_data_empty, strategy_calls, initial_capital, profile, end_date,
                   current_date, price_index, row, signals, current_capital, holdings,
                   trades, equity_curve, last_valid>>

MetricsNext == CalculateMetrics

SpecMetrics == MetricsInit /\ [][MetricsNext]_allvars

\* ===========================================================================
\* TechnicalIndicators.calculate_rsi (margin_momentum_analyzer.py lines 19-49)
\* as a function of its arguments.
\* ===========================================================================

\* Values of one point of a drawn price series, and the periods drawn.
RsiPrices == {10, 11, 12}
RsiPeriods == {2, 3}

\* Price series of 0..MaxSeries points.
RsiSeries == UNION { [1..n -> RsiPrices] : n \in 0..MaxSeries }

\* prices.diff() at the 1-based position i >= 2 (the first entry is missing).
Delta(p, i) == p[i] - p[i-1]

\* seed = deltas[:period + 1]: the positions of its entries that are numbers.
SeedDays(p, period) == {i \in 2..Len(p) : i <= period + 1}

RECURSIVE SumOver(_, _, _)
SumOver(p, days, sign) ==
    IF days = {} THEN 0
    ELSE LET i == CHOOSE i \in days : TRUE
             d == Delta(p, i)
         IN  (IF sign = "up" /\ d >= 0 THEN d
              ELSE IF sign = "down" /\ d < 0 THEN -d
              ELSE 0) + SumOver(p, days \ {i}, sign)

\* The averages up and down, each as a numerator over the common denominator
\* `scale`: after line 28 they are the seed sums over `period`.
SeedAverages(p, period) ==
    [up |-> SumOver(p, SeedDays(p, period), "up"),
     down |-> SumOver(p, SeedDays(p, period), "down"),
     scale |-> period]

\* Lines 35-44 for one delta: the smoothed averages.
SmoothStep(avg, delta, period) ==
    [up |-> avg.up * (period - 1) + (IF delta > 0 THEN delta ELSE 0) * avg.scale,
     down |-> avg.down * (period - 1) + (IF delta > 0 THEN 0 ELSE -delta) * avg.scale,
     scale |-> avg.scale * period]

\* The averages after the loop iteration for the position i (i > period), and
\* the seed averages for i <= period.
RECURSIVE AveragesAt(_, _, _)
AveragesAt(p, period, i) ==
    IF i <= period THEN SeedAverages(p, period)
    ELSE SmoothStep(AveragesAt(p, period, i - 1), Delta(p, i), period)

\* rs = up / down if down != 0 else 0; 100. - 100. / (1. + rs), which is
\* 100 * up / (up + down) when down is not 0 and 0 when it is.
RsiValue(avg) ==
    IF avg.down # 0 THEN Reduced(100 * avg.up, avg.up + avg.down) ELSE ZeroRatio

\* The series returned: the seed value at the first `period` positions (at all
\* positions of a shorter series), the smoothed values after them.
calculate_rsi(p, period) == [i \in 1..Len(p) |-> RsiValue(AveragesAt(p, period, i))]

\* calculate_rsi is about to be called with a drawn series and period.
RsiInit ==
    /\ BacktestIdle
    /\ AnalysisIdle
    /\ FilterIdle
    /\ MainIdle
    /\ RetryIdle
    /\ rsi_pc = "call"
    /\ rsi_prices \in RsiSeries
    /\ rsi_period \in RsiPeriods
    /\ rsi_out = <<>>

CalculateRsi ==
    /\ rsi_pc = "call"
    /\ rsi_pc' = "returned"
    /\ rsi_out' = calculate_rsi(rsi_prices, rsi_period)
    /\ UNCHANGED <<vars, avars, fvars, mvars, tvars, rsi_prices, rsi_period>>

RsiNext == CalculateRsi

SpecRsi == RsiInit /\ [][RsiNext]_allvars

\* ===========================================================================
\* main.py: main() with the action `analyze` (lines 17-59) and analyze()
\* (lines 62-109).  What analyzer.analyze does is an input of this part: it
\* raises, or it returns a frame of rows.
\* ===========================================================================

\* Rows analyzer.analyze may return: a BUY and a SELL row within the price
\* range of the filter, and one of each outside it.
MainRows ==
    { [signal_type |-> "BUY", signal_grade |-> "S", current_price |-> 100],
      [signal_type |-> "BUY", signal_grade |-> "A", current_price |-> 9],
      [signal_type |-> "SELL", signal_grade |-> "URGENT", current_price |-> 100],
      [signal_type |-> "SELL", signal_grade |-> "HIGH", current_price |-> 501] }

\* Frames of zero to three rows.
MainFrames == UNION { [1..n -> MainRows] : n \in {0, 1, 2, 3} }

HasRows(rows, type) == \E i \in 1..Len(rows) : rows[i].signal_type = type

\* `python main.py analyze` has been started.
MainInit ==
    /\ BacktestIdle
    /\ AnalysisIdle
    /\ FilterIdle
    /\ RsiIdle
    /\ RetryIdle
    /\ m_pc = "main"
    /\ m_signals = <<>>
    /\ m_sent = <<>>
    /\ m_returned = {}
    /\ m_raised = FALSE
    /\ m_exit = "none"

\* Lines 21-23: Config.validate() fails; the error is logged and the process
\* exits with status 1.
MainConfigInvalid ==
    /\ m_pc = "main"
    /\ m_pc' = "exited"
    /\ m_exit' = "1"
    /\ UNCHANGED <<m_signals, m_sent, m_returned, m_raised>>
    /\ UNCHANGED <<vars, avars, fvars, rvars, tvars>>

\* Lines 47-51 and 65-72: the configuration is valid, main() calls analyze(),
\* which builds the analyzer and the notifier.
MainCallsAnalyze ==
    /\ m_pc = "main"
    /\ m_pc' = "analyze"
    /\ UNCHANGED <<m_signals, m_sent, m_returned, m_raised, m_exit>>
    /\ UNCHANGED <<vars, avars, fvars, rvars, tvars>>

\* Variant of AnalysisRaises that reports a failed analysis as a day without
\* signals.
AnalysisRaises_ReportedAsNoSignals ==
    /\ m_pc = "analyze"
    /\ m_raised' = TRUE
    /\ m_sent' = Append(m_sent, "no_signals")
    /\ m_pc' = "finished"
    /\ UNCHANGED <<m_signals, m_returned, m_exit>>
    /\ UNCHANGED <<vars, avars, fvars, rvars, tvars>>

\* Line 75: analyzer.analyze raises (margin_momentum_analyzer.py lines
\* 125-127 log the error and raise it again); control passes to the handler of
\* line 107.
AnalysisRaises ==
    /\ m_pc = "analyze"
    /\ m_raised' = TRUE
    /\ m_pc' = "handler"
    /\ UNCHANGED <<m_signals, m_sent, m_returned, m_exit>>
    /\ UNCHANGED <<vars, avars, fvars, rvars, tvars>>

\* Lines 75-78: analyzer.analyze returns a frame; filter_signals is called
\* next when the frame has rows.
AnalysisReturns ==
    /\ m_pc = "analyze"
    /\ \E frame \in MainFrames :
          /\ m_signals' = frame
          /\ m_pc' = IF frame # <<>> THEN "filter" ELSE "branch"
    /\ m_returned' = m_returned \cup {"analyze"}
    /\ UNCHANGED <<m_sent, m_raised, m_exit>>
    /\ UNCHANGED <<vars, avars, fvars, rvars, tvars>>

\* Line 79: signals = analyzer.filter_signals(signals).
FilterReturns ==
    /\ m_pc = "filter"
    /\ m_signals' \in sort_values(SelectSeq(m_signals, InRange))
    /\ m_returned' = m_returned \cup {"filter_signals"}
    /\ m_pc' = "branch"
    /\ UNCHANGED <<m_sent, m_raised, m_exit>>
    /\ UNCHANGED <<vars, avars, fvars, rvars, tvars>>

\* Lines 101-103: no row is left; the 'no signals' message is sent.
SendNoSignals ==
    /\ m_pc = "branch"
    /\ m_signals = <<>>
    /\ m_sent' = Append(m_sent, "no_signals")
    /\ m_pc' = "finished"
    /\ UNCHANGED <<m_signals, m_returned, m_raised, m_exit>>
    /\ UNCHANGED <<vars, avars, fvars, rvars, tvars>>

\* Lines 82-91: rows are left; send_buy_signals is called when one is a BUY row.
ReportBuy ==
    /\ m_pc = "branch"
    /\ m_signals # <<>>
    /\ m_sent' = IF HasRows(m_signals, "BUY") THEN Append(m_sent, "buy_signals")
                 ELSE m_sent
    /\ m_pc' = "sell"
    /\ UNCHANGED <<m_signals, m_returned, m_raised, m_exit>>
    /\ UNCHANGED <<vars, avars, fvars, rvars, tvars>>

\* Lines 94-96: send_sell_signals is called when a row is a SELL row.
ReportSell ==
    /\ m_pc = "sell"
    /\ m_sent' = IF HasRows(m_signals, "SELL") THEN Append(m_sent, "sell_signals")
                 ELSE m_sent
    /\ m_pc' = "summary"
    /\ UNCHANGED <<m_signals, m_returned, m_raised, m_exit>>
    /\ UNCHANGED <<vars, avars, fvars, rvars, tvars>>

\* Line 99: send_daily_summary.
SendSummary ==
    /\ m_pc = "summary"
    /\ m_sent' = Append(m_sent, "daily_summary")
    /\ m_pc' = "finished"
    /\ UNCHANGED <<m_signals, m_returned, m_raised, m_exit>>
    /\ UNCHANGED <<vars, avars, fvars, rvars, tvars>>

\* Line 105 and the return to main(): the process ends with status 0.
AnalyzeDone ==
    /\ m_pc = "finished"
    /\ m_pc' = "exited"
    /\ m_exit' = "0"
    /\ UNCHANGED <<m_signals, m_sent, m_returned, m_raised>>
    /\ UNCHANGED <<vars, avars, fvars, rvars, tvars>>

\* Lines 107-109: the handler of analyze() logs the error and raises it again.
AnalyzeHandler ==
    /\ m_pc = "handler"
    /\ m_pc' = "main_handler"
    /\ UNCHANGED <<m_signals, m_sent, m_returned, m_raised, m_exit>>
    /\ UNCHANGED <<vars, avars, fvars, rvars, tvars>>

\* Lines 57-59: the handler of main() logs the failure as critical and exits
\* with status 1.
MainHandler ==
    /\ m_pc = "main_handler"
    /\ m_pc' = "exited"
    /\ m_exit' = "1"
    /\ UNCHANGED <<m_signals, m_sent, m_returned, m_raised>>
    /\ UNCHANGED <<vars, avars, fvars, rvars, tvars>>

MainNext ==
    \/ MainConfigInvalid
    \/ MainCallsAnalyze
    \/ AnalysisRaises
    \/ AnalysisReturns
    \/ FilterReturns
    \/ SendNoSignals
    \/ ReportBuy
    \/ ReportSell
    \/ SendSummary
    \/ AnalyzeDone
    \/ AnalyzeHandler
    \/ MainHandler

\* The process runs on until it exits: every statement of main() and analyze()
\* returns or raises.
SpecMain == MainInit /\ [][MainNext]_allvars /\ WF_allvars(MainNext)

\* ===========================================================================
\* retry_on_failure (utils/api_helper.py lines 12-39): one call of the wrapper
\* around a function whose invocations return or raise.
\* ===========================================================================

\* The wrapper is entered (lines 16-17) with the decorator's arguments drawn:
\* 1..MaxAttempts attempts, a delay of 0, 1 or 5 and a backoff of 1, 2 or 3
\* (get_data is decorated with 3 attempts, delay 5.0 and the default 2.0).
RetryInit ==
    /\ BacktestIdle
    /\ AnalysisIdle
    /\ FilterIdle
    /\ RsiIdle
    /\ MainIdle
    /\ retry_pc = "try"
    /\ max_attempts \in 1..MaxAttempts
    /\ delay \in {0, 1, 5}
    /\ backoff \in {1, 2, 3}
    /\ attempt = 1
    /\ current_delay = delay
    /\ outcomes = <<>>
    /\ slept = <<>>
    /\ propagated = 0

\* Line 21: func returns; the wrapper returns its result.
AttemptSucceeds ==
    /\ retry_pc = "try"
    /\ attempt <= max_attempts
    /\ outcomes' = Append(outcomes, "returned")
    /\ propagated' = Len(outcomes) + 1
    /\ retry_pc' = "returned"
    /\ UNCHANGED <<max_attempts, delay, backoff, attempt, current_delay, slept>>
    /\ UNCHANGED <<vars, avars, fvars, rvars, mvars>>

\* Lines 22-30: func raises and attempts are left; the wrapper sleeps
\* current_delay, multiplies it by backoff and counts the attempt.
AttemptFailsRetry ==
    /\ retry_pc = "try"
    /\ attempt <= max_attempts
    /\ attempt < max_attempts
    /\ outcomes' = Append(outcomes, "raised")
    /\ slept' = Append(slept, current_delay)
    /\ current_delay' = current_delay * backoff
    /\ attempt' = attempt + 1
    /\ UNCHANGED <<retry_pc, max_attempts, delay, backoff, propagated>>
    /\ UNCHANGED <<vars, avars, fvars, rvars, mvars>>

\* Variant of AttemptFailsLast that sleeps once more before it raises.
AttemptFailsLast_SleepsFirst ==
    /\ retry_pc = "try"
    /\ attempt <= max_attempts
    /\ ~(attempt < max_attempts)
    /\ outcomes' = Append(outcomes, "raised")
    /\ slept' = Append(slept, current_delay)
    /\ propagated' = Len(outcomes) + 1
    /\ retry_pc' = "raised"
    /\ UNCHANGED <<max_attempts, delay, backoff, attempt, current_delay>>
    /\ UNCHANGED <<vars, avars, fvars, rvars, mvars>>

\* Lines 22-23 and 31-36: func raises on the last attempt; the error is logged
\* and the exception raised again.
AttemptFailsLast ==
    /\ retry_pc = "try"
    /\ attempt <= max_attempts
    /\ ~(attempt < max_attempts)
    /\ outcomes' = Append(outcomes, "raised")
    /\ propagated' = Len(outcomes) + 1
    /\ retry_pc' = "raised"
    /\ UNCHANGED <<max_attempts, delay, backoff, attempt, current_delay, slept>>
    /\ UNCHANGED <<vars, avars, fvars, rvars, mvars>>

RetryNext ==
    \/ AttemptSucceeds
    \/ AttemptFailsRetry
    \/ AttemptFailsLast

\* Every invocation of func ends, by a return or by an exception, and the
\* wrapper then takes its next step.
SpecRetry == RetryInit /\ [][RetryNext]_allvars /\ WF_allvars(RetryNext)

\* ------------------------------------------------------- claims: vocabulary

\* The last loop iteration ran on a day with price data, so that row and
\* signals are that day's row and that day's callback result.
DayDone == pc \in {"loop", "done"} /\ current_date \in price_index

\* The callback returned rows on that day.
HadSignals == ~signals.is_none /\ signals.rows # <<>>

LastPoint == equity_curve[Len(equity_curve)]

\* Every holding of hold has a price in the row.
AllPriced(hold, prices) ==
    \A i \in 1..Len(hold) : ~IsNaN(prices[hold[i].stock_id])

RECURSIVE SumPnl(_)
SumPnl(trs) == IF trs = <<>> THEN 0 ELSE Head(trs).pnl + SumPnl(Tail(trs))

\* Sum of shares * exit_price over trades.
RECURSIVE SumProceeds(_)
SumProceeds(trs) ==
    IF trs = <<>> THEN 0
    ELSE Head(trs).shares * Head(trs).exit_price + SumProceeds(Tail(trs))

\* Sum of shares * entry_price over holdings or trades.
RECURSIVE SumCost(_)
SumCost(xs) ==
    IF xs = <<>> THEN 0
    ELSE Head(xs).shares * Head(xs).entry_price + SumCost(Tail(xs))

\* Sum of shares * price over holdings, at the prices given.
RECURSIVE MarkToMarket(_, _)
MarkToMarket(hold, prices) ==
    IF hold = <<>> THEN 0
    ELSE Head(hold).shares * prices[Head(hold).stock_id]
         + MarkToMarket(Tail(hold), prices)

\* The trades a step appends.
NewTrades(before, after) == SubSeq(after, Len(before) + 1, Len(after))

SeqRange(xs) == { xs[i] : i \in 1..Len(xs) }

\* A SELL row for the instrument is in the frame.
SellRowFor(rows, stock_id) ==
    \E k \in 1..Len(rows) : rows[k].stock_id = stock_id /\ rows[k].signal_type = "SELL"

\* A BUY row for the instrument is in the frame.
BuyRowFor(rows, stock_id) ==
    \E k \in 1..Len(rows) : rows[k].stock_id = stock_id /\ rows[k].signal_type = "BUY"

\* ----------------------------------------------------------------- claims

\* C1: for every completed run, final_capital = initial_capital + the sum of
\* pnl over the trade log + the unrealized value shares * (last-day price -
\* entry_price) of the holdings still open on the last simulated day.
\* (Stated for runs whose open holdings all have a last-day price.)
C1_FinalCapitalIdentity ==
    (pc = "done" /\ AllPriced(holdings, row)) =>
        results[1].final_capital =
            initial_capital + SumPnl(trades)
            + (MarkToMarket(holdings, row) - SumCost(holdings))

\* C2: on every simulated day with price data, whatever the callback returned,
\* no holding with a live price stays open although its return reached the
\* target, fell to the stop, or its holding days elapsed.
C2_ExitsCheckedEveryDay ==
    DayDone =>
        \A i \in 1..Len(holdings) :
            LET h == holdings[i]
                p == row[h.stock_id]
            IN  ~(IsNaN(p) \/ p = 0) =>
                  ~ \/ (p - h.entry_price) * 100 >= h.expected_return * h.entry_price
                    \/ (p - h.entry_price) * 100 <= h.stop_loss * h.entry_price
                    \/ current_date - h.entry_date >= h.holding_days

\* C3: the exit reason recorded for a trade is the first of target, stop_loss,
\* time, signal that holds for its holding on the exit day; no instrument has
\* two trades with the same exit day; with the stop-loss condition and a
\* same-day SELL row both holding (and no target), the reason is stop_loss.
C3_ExitPriority ==
    /\ \A i \in 1..Len(trades) : \A j \in 1..Len(trades) :
          (i # j /\ trades[i].stock_id = trades[j].stock_id)
              => trades[i].exit_date # trades[j].exit_date
    /\ DayDone =>
          \A i \in 1..Len(trades) :
              LET t == trades[i]
                  p == row[t.stock_id]
                  target == (p - t.entry_price) * 100 >= t.expected_return * t.entry_price
                  stop == (p - t.entry_price) * 100 <= t.stop_loss * t.entry_price
                  time == t.exit_date - t.entry_date >= profile.holding_days
                  sell == SellRowFor(signals.rows, t.stock_id)
              IN  t.exit_date = current_date =>
                    /\ ~IsNaN(p)
                    /\ t.exit_reason = IF target THEN "target"
                                       ELSE IF stop THEN "stop_loss"
                                       ELSE IF time THEN "time"
                                       ELSE "signal"
                    /\ t.exit_reason = "signal" => sell
                    /\ (stop /\ sell /\ ~target) => t.exit_reason = "stop_loss"

\* C3 witness: a trade closed today with reason stop_loss although the frame
\* of the day has a SELL row for its instrument.
C3_StopLossBeatsSell ==
    /\ DayDone
    /\ \E i \in 1..Len(trades) :
          /\ trades[i].exit_date = current_date
          /\ trades[i].exit_reason = "stop_loss"
          /\ SellRowFor(signals.rows, trades[i].stock_id)

\* C4: a target trade exits at entry_price * (1 + expected_return/100) and a
\* stop_loss trade at entry_price * (1 + stop_loss/100), whatever the live
\* price; pnl and the cash credited come from that exit price; time and signal
\* trades exit at the live price of the exit day.
C4_TheoreticalExitPrice ==
    /\ \A i \in 1..Len(trades) :
          LET t == trades[i]
          IN  /\ t.exit_reason = "target" =>
                    t.exit_price * 100 = t.entry_price * (100 + t.expected_return)
              /\ t.exit_reason = "stop_loss" =>
                    t.exit_price * 100 = t.entry_price * (100 + t.stop_loss)
              /\ t.pnl = t.shares * (t.exit_price - t.entry_price)
              /\ (DayDone /\ t.exit_date = current_date
                    /\ t.exit_reason \in {"time", "signal"}) =>
                    t.exit_price = row[t.stock_id]
    /\ current_capital =
          initial_capital - SumCost(holdings) - SumCost(trades) + SumProceeds(trades)

\* C4 witness: entry at 100 with a 10% target, live price 112 on the exit day,
\* trade closed at 110.
C4_TargetAt110Not112 ==
    /\ DayDone
    /\ \E i \in 1..Len(trades) :
          /\ trades[i].exit_date = current_date
          /\ trades[i].exit_reason = "target"
          /\ trades[i].entry_price = 10000
          /\ trades[i].expected_return = 10
          /\ row[trades[i].stock_id] = 11200
          /\ trades[i].exit_price = 11000

\* C5: a step never removes or alters a trade already in the log; every trade
\* it appends has pnl = shares * (exit_price - entry_price) and its instrument
\* is no longer held; every holding that is closed gets exactly one trade, the
\* others stay as they are; cash changes by the proceeds shares * exit_price
\* of the appended trades, less the cost of the entries of the day.
C5_Step ==
    LET new == NewTrades(trades, trades')
        opened == { h \in SeqRange(holdings') : h \notin SeqRange(holdings) }
        roundtrips == { k \in 1..Len(new) : new[k].entry_date = new[k].exit_date }
        OpenedCost == LET RECURSIVE Sum(_)
                          Sum(S) == IF S = {} THEN 0
                                    ELSE LET h == CHOOSE x \in S : TRUE
                                         IN  h.shares * h.entry_price + Sum(S \ {h})
                      IN  Sum(opened)
        RoundtripCost == LET RECURSIVE Sum(_)
                             Sum(S) == IF S = {} THEN 0
                                       ELSE LET k == CHOOSE x \in S : TRUE
                                            IN  new[k].shares * new[k].entry_price
                                                + Sum(S \ {k})
                         IN  Sum(roundtrips)
    IN  /\ Len(trades') >= Len(trades)
        /\ SubSeq(trades', 1, Len(trades)) = trades
        /\ \A k \in 1..Len(new) :
              /\ new[k].pnl = new[k].shares * (new[k].exit_price - new[k].entry_price)
              /\ ~Held(holdings', new[k].stock_id)
        /\ \A i \in 1..Len(holdings) :
              LET h == holdings[i]
                  closing == { k \in 1..Len(new) :
                                 /\ new[k].stock_id = h.stock_id
                                 /\ new[k].shares = h.shares
                                 /\ new[k].entry_price = h.entry_price
                                 /\ new[k].entry_date = h.entry_date }
              IN  IF h \in SeqRange(holdings')
                  THEN closing = {}
                  ELSE Cardinality(closing) = 1 /\ ~Held(holdings', h.stock_id)
        /\ \A k \in 1..Len(new) :
              k \in roundtrips \/ Held(holdings, new[k].stock_id)
        /\ current_capital' =
              current_capital + SumProceeds(new) - OpenedCost - RoundtripCost

\* C5: every step of a run satisfies C5_Step.
C5_ExitFrame == [][C5_Step]_vars

\* C5 witness: a holding opened on an earlier day was closed today while
\* another holding stays open.
C5_ExitWitness ==
    /\ DayDone
    /\ holdings # <<>>
    /\ \E i \in 1..Len(trades) :
          /\ trades[i].exit_date = current_date
          /\ trades[i].entry_date < current_date

C7_PointIsCashPlusHoldings ==
    (DayDone /\ AllPriced(holdings, row)) =>
        LastPoint.value = current_capital + MarkToMarket(holdings, row)

\* C8: when an open holding's price is missing on a simulated day, the point
\* of the day is a defined number that values the holding at its last
\* available price.  (Stated for days on which the callback returned rows.)
C8_MissingPriceKeepsLastValue ==
    (DayDone /\ HadSignals /\ ~AllPriced(holdings, row)) =>
        /\ ~IsNaN(LastPoint.value)
        /\ LastPoint.value = current_capital + MarkToMarket(holdings, last_valid)

\* The step is a loop iteration on a priced day on which the callback
\* returned rows.
SignalDayStep ==
    /\ current_date' = current_date + 1
    /\ current_date' \in price_index'
    /\ ~signals'.is_none
    /\ signals'.rows # <<>>

\* The entries the claim C9 prescribes for the BUY rows `buys`, taken in order
\* with `cash` in hand and the instruments `held` held: an instrument not held
\* whose price p is available and not zero is sized at
\* floor(min(10% of initial capital, 10% of cash) / p) shares and entered, the
\* cash debited by shares * p, exactly when that is at least one share.
RECURSIVE C9_Entries(_, _, _, _)
C9_Entries(buys, cash, held, prices) ==
    IF buys = <<>> THEN [cash |-> cash, opened |-> {}]
    ELSE LET s == Head(buys).stock_id
             p == prices[s]
             budget == IF initial_capital <= cash THEN initial_capital ELSE cash
             n == budget \div (10 * p)
         IN  IF s \in held \/ p = NaN \/ p = 0 \/ n < 1
             THEN C9_Entries(Tail(buys), cash, held, prices)
             ELSE LET rest == C9_Entries(Tail(buys), cash - n * p, held \cup {s}, prices)
                  IN  [cash |-> rest.cash,
                       opened |-> rest.opened \cup
                                  {[stock_id |-> s, shares |-> n, entry_price |-> p]}]

\* C9: on a day with signal rows, the holdings opened are exactly the entries
\* prescribed for the BUY rows in order (each sized on the cash left by the
\* entries before it), and the cash after the day is the cash left by those
\* entries plus the proceeds of the day's exits.
C9_Step ==
    SignalDayStep =>
        LET rows == signals'.rows
            buys == SelectSeq(rows, LAMBDA r : r.signal_type = "BUY")
            held == { holdings[i].stock_id : i \in 1..Len(holdings) }
            exp == C9_Entries(buys, current_capital, held, row')
            new == NewTrades(trades, trades')
            Key(x) == [stock_id |-> x.stock_id, shares |-> x.shares,
                       entry_price |-> x.entry_price]
            openedNow ==
                { Key(holdings'[i]) : i \in { j \in 1..Len(holdings') :
                                                 holdings'[j].entry_date = current_date' } }
                \cup
                { Key(new[k]) : k \in { j \in 1..Len(new) :
                                          new[j].entry_date = current_date' } }
        IN  /\ openedNow = exp.opened
            /\ current_capital' = exp.cash + SumProceeds(new)

\* C9: every step of a run satisfies C9_Step.
C9_EntrySizing == [][C9_Step]_vars

\* C9 witness: two holdings opened today at the same price, the later one
\* with fewer shares (sized on the cash the first entry left).
C9_SecondEntryUsesReducedCash ==
    /\ DayDone
    /\ Len(holdings) = 2
    /\ holdings[1].entry_date = current_date
    /\ holdings[2].entry_date = current_date
    /\ holdings[1].entry_price = holdings[2].entry_price
    /\ holdings[2].shares < holdings[1].shares
    /\ holdings[2].shares >= 1

\* C10: there is at most one holding per instrument; a holding that stays open
\* over a step stays as it is (shares, entry price, entry date, annotations);
\* and a day whose rows are all BUY rows for instruments already held, and on
\* which no holding is closed, leaves cash and holdings unchanged.
C10_Step ==
    /\ \A i \in 1..Len(holdings') : \A j \in 1..Len(holdings') :
          i # j => holdings'[i].stock_id # holdings'[j].stock_id
    /\ \A i \in 1..Len(holdings) : \A j \in 1..Len(holdings') :
          holdings'[j].stock_id = holdings[i].stock_id => holdings'[j] = holdings[i]
    /\ ( /\ SignalDayStep
         /\ \A k \in 1..Len(signals'.rows) :
               /\ signals'.rows[k].signal_type = "BUY"
               /\ Held(holdings, signals'.rows[k].stock_id)
         /\ trades' = trades )
       => (current_capital' = current_capital /\ holdings' = holdings)

\* C10: every step of a run satisfies C10_Step.
C10_OneHoldingPerInstrument == [][C10_Step]_vars

\* C10 witness: the day's frame has a BUY row for an instrument whose holding,
\* opened on an earlier day, is still open after the day.
C10_BuyForHeldInstrument ==
    /\ DayDone
    /\ \E i \in 1..Len(holdings) :
          /\ holdings[i].entry_date < current_date
          /\ BuyRowFor(signals.rows, holdings[i].stock_id)

\* C11: with an empty price table run_backtest raises: the strategy callback
\* is never called and no result is returned.  In every run, a run that has
\* raised has returned nothing, and a result exists only once the loop has
\* passed the last day of the range; that result holds the whole equity curve
\* (one point per priced day of the range) and the whole trade log, and its
\* final capital is the last point of that curve.
C11_RaiseOrFullResult ==
    /\ price_data_empty =>
          (strategy_calls = 0 /\ results = <<>> /\ pc \in {"start", "raised"})
    /\ pc = "raised" => results = <<>>
    /\ results # <<>> =>
          /\ pc = "done"
          /\ current_date = end_date
          /\ Len(results) = 1
          /\ results[1].equity_curve = equity_curve
          /\ Len(equity_curve) = Cardinality(price_index)
          /\ results[1].trades = trades
          /\ results[1].final_capital = FinalCapital(equity_curve)

\* C11 witness: the price table was empty and the run has raised.
C11_EmptyTableRaised == pc = "raised" /\ price_data_empty

\* What one loop iteration on a priced day with the frame `rows` makes of the
\* cash, holdings and trade log it starts from: the day's entries, exits,
\* removals and valuation, in the order of lines 117-237.
DayOutcome(cap, hold, trs, prices, date, rows) ==
    LET entered == ProcessBuys(buy_signals(rows),
                               [current_capital |-> cap, holdings |-> hold],
                               prices, date)
        exited == ProcessExits(entered.holdings,
                               [current_capital |-> entered.current_capital,
                                trades |-> trs, stocks_to_remove |-> {}],
                               prices, date, rows)
        remaining == RemoveExited(entered.holdings, exited.stocks_to_remove)
    IN  [current_capital |-> exited.current_capital,
         holdings |-> remaining,
         trades |-> exited.trades,
         value |-> NanAdd(exited.current_capital, holding_value(remaining, prices))]

\* A two-row frame with its rows in the other order.
Swap(rows) == <<rows[2], rows[1]>>

\* A two-row frame whose rows name different instruments and are not both BUY
\* rows.
UnrelatedRows(rows) ==
    /\ Len(rows) = 2
    /\ rows[1].stock_id # rows[2].stock_id
    /\ ~(IsBuy(rows[1]) /\ IsBuy(rows[2]))

\* C12 as stated, over the first two priced days of a run: had the rows of the
\* first day's frame, which name two instruments, been iterated in the other
\* order, the second day would end with the same trades and the same equity
\* curve.
C12_TwoDayStep ==
    ( /\ current_date = 1
      /\ price_index = {1}
      /\ HadSignals
      /\ Len(signals.rows) = 2
      /\ signals.rows[1].stock_id # signals.rows[2].stock_id
      /\ SignalDayStep )
    => LET d1 == DayOutcome(initial_capital, <<>>, <<>>, row, 1, Swap(signals.rows))
           d2 == DayOutcome(d1.current_capital, d1.holdings, d1.trades,
                            row', 2, signals'.rows)
       IN  /\ SeqRange(d2.trades) = SeqRange(trades')
           /\ <<Point(1, d1.value), Point(2, d2.value)>> = equity_curve'

\* C12: the trade log and the equity curve of a run do not depend on the order
\* in which the instruments of a day's signals are iterated.
C12_SameResultInAnyOrder == [][C12_TwoDayStep]_vars

\* C12, order of unrelated rows: on a day whose frame has two rows for different
\* instruments, not both BUY rows, the rows taken in the other order give the
\* same cash, holdings, trade log and equity point.
C12_Step ==
    (SignalDayStep /\ UnrelatedRows(signals'.rows))
    => LET o == DayOutcome(current_capital, holdings, trades, row', current_date',
                           Swap(signals'.rows))
       IN  /\ o.current_capital = current_capital'
           /\ o.holdings = holdings'
           /\ o.trades = trades'
           /\ o.value = equity_curve'[Len(equity_curve')].value

\* C12, amended: every step of a run satisfies C12_Step.
C12_OrderOfUnrelatedRows == [][C12_Step]_vars

\* C12 witness: a day whose frame has two unrelated rows, on which one
\* instrument was sold on its SELL row and the other was bought.
C12_SellOneBuyOther ==
    /\ DayDone
    /\ HadSignals
    /\ UnrelatedRows(signals.rows)
    /\ \E i \in 1..Len(trades) : /\ trades[i].exit_date = current_date
                                  /\ trades[i].exit_reason = "signal"
    /\ \E j \in 1..Len(holdings) : holdings[j].entry_date = current_date

\* ------------------------------------------------ claims on the analysis

\* The detector has run at least one loop iteration; cur is the instrument of
\* the last one.
Processed == an_pc \in {"loop", "returned"} /\ stock_index > 0

\* The records the detector holds for the instrument.
SignalsOf(stock_id) ==
    LET Same(r) == r.stock_id = stock_id IN SelectSeq(detected, Same)

\* The instrument's own price_vs_ma20, for a price and an average that are
\* available and positive.
OwnPvm(d) == Ratio(d.current_price - d.ma20, d.ma20)

\* Price, financing data, RSI and 20-day average of the instrument are all
\* available: a positive price, a column with a balance in the
\* today's-financing-balance table, an RSI and an average.
Available(d) ==
    /\ ~IsNaN(d.current_price) /\ d.current_price > 0
    /\ d.margin.in_margin /\ ~IsNaN(d.margin.margin_balance)
    /\ ~IsNaN(d.rsi)
    /\ ~IsNaN(d.ma20) /\ d.ma20 > 0

\* The BUY rule of C13 on the instrument's own figures, and its grade.
C13_Fires(d) ==
    /\ Above(margin_pct_change(d), 10)
    /\ d.rsi < 30
    /\ Below(OwnPvm(d), 0)

C13_Grade(d) ==
    IF Above(margin_pct_change(d), 15) /\ d.rsi < 25 /\ Below(OwnPvm(d), -5)
    THEN "S" ELSE "A"

\* C13: for an instrument whose price, financing data, RSI and 20-day average
\* are available, the detector holds a BUY record exactly when
\* margin_pct_change > 0.10, RSI < 30 and price_vs_ma20 < 0; it is then its
\* only record, of grade S exactly when margin_pct_change > 0.15, RSI < 25 and
\* price_vs_ma20 < -0.05 and of grade A otherwise, with expected return 15 for
\* S and 10 for A, stop loss -8 and 5 holding days.
C13_BuyRule ==
    (Processed /\ Available(cur.data)) =>
        LET d == cur.data
            mine == SignalsOf(cur.stock_id)
        IN  IF C13_Fires(d)
            THEN mine = << [stock_id |-> cur.stock_id, signal_type |-> "BUY",
                            signal_grade |-> C13_Grade(d),
                            current_price |-> d.current_price,
                            expected_return |-> IF C13_Grade(d) = "S" THEN 15 ELSE 10,
                            stop_loss |-> -8, holding_days |-> 5] >>
            ELSE \A i \in 1..Len(mine) : mine[i].signal_type # "BUY"

\* The SELL rule of C14 on the instrument's own figures, for an instrument with
\* a positive price.
C14_Fires(d) ==
    /\ ~(Available(d) /\ C13_Fires(d))
    /\ Above(short_pct_change(d), 10)
    /\ ~IsNaN(d.rsi) /\ d.rsi > 70
    /\ ~IsNaN(d.ma20) /\ d.ma20 > 0 /\ Above(OwnPvm(d), 0)

\* C14: for every instrument with a positive price, the detector holds a SELL
\* record exactly when the BUY rule did not fire and short_pct_change > 0.10,
\* RSI > 70 and price_vs_ma20 > 0, of grade URGENT exactly when
\* short_pct_change > 0.15 and RSI > 75 and HIGH otherwise; and it never holds
\* more than one record for an instrument.
C14_SellRule ==
    (Processed /\ ~IsNaN(cur.data.current_price) /\ cur.data.current_price > 0) =>
        LET d == cur.data
            mine == SignalsOf(cur.stock_id)
        IN  /\ Len(mine) <= 1
            /\ IF C14_Fires(d)
               THEN /\ Len(mine) = 1
                    /\ mine[1].signal_type = "SELL"
                    /\ mine[1].signal_grade =
                          IF Above(short_pct_change(d), 15) /\ d.rsi > 75
                          THEN "URGENT" ELSE "HIGH"
               ELSE \A i \in 1..Len(mine) : mine[i].signal_type # "SELL"

NoPrevMargin(d) ==
    ~d.margin.has_prev_margin \/ (~IsNaN(d.margin.prev_margin) /\ d.margin.prev_margin <= 0)

\* The instrument has no previous-day short figure, or one that is <= 0.
NoPrevShort(d) ==
    ~d.short.has_prev_short \/ (~IsNaN(d.short.prev_short) /\ d.short.prev_short <= 0)

\* The ratio is 0.
IsZero(r) == ~r.nan /\ r.num = 0

\* C16: for an instrument whose previous-day financing balance is absent or
\* <= 0, margin_pct_change is 0 and the detector holds no BUY record; for an
\* instrument whose previous-day short balance is absent or <= 0,
\* short_pct_change is 0 and the detector holds no SELL record.
C16_NoPreviousBalance ==
    Processed =>
        LET d == cur.data
            mine == SignalsOf(cur.stock_id)
        IN  /\ NoPrevMargin(d) =>
                  /\ IsZero(margin_pct_change(d))
                  /\ \A i \in 1..Len(mine) : mine[i].signal_type # "BUY"
            /\ NoPrevShort(d) =>
                  /\ IsZero(short_pct_change(d))
                  /\ \A i \in 1..Len(mine) : mine[i].signal_type # "SELL"

\* C16 witness: an instrument with a financing balance and no previous-day
\* figure, a price below its average and an oversold RSI, was evaluated to the
\* end with its own indicators, and no record was emitted for it.
C16_OversoldWithoutPrevious ==
    /\ Processed
    /\ indicators = "by_instrument"
    /\ cur.stock_id \notin skipped
    /\ cur.data.margin.in_margin
    /\ ~cur.data.margin.has_prev_margin
    /\ cur.data.current_price = 92 /\ cur.data.ma20 = 100 /\ cur.data.rsi = 22
    /\ SignalsOf(cur.stock_id) = <<>>

\* C17: a loop iteration leaves the detector in its loop, whether or not it
\* raised; it keeps every record emitted before it and appends only records of
\* its own instrument, none if it raised; the detector never ends by raising,
\* and it returns, after the last instrument, all the records emitted.
C17_Step ==
    /\ stock_index' = stock_index + 1 =>
          /\ an_pc' = "loop"
          /\ Len(detected') >= Len(detected)
          /\ SubSeq(detected', 1, Len(detected)) = detected
          /\ \A i \in (Len(detected) + 1)..Len(detected') :
                detected'[i].stock_id = cur'.stock_id
          /\ cur'.stock_id \in skipped' => detected' = detected
    /\ an_pc = "loop" => an_pc' \in {"loop", "returned"}
    /\ (an_pc = "loop" /\ an_pc' = "returned") =>
          /\ stock_index = Len(AnColumns)
          /\ returned' = <<detected>>

\* C17: every step of an evaluation satisfies C17_Step.
C17_PerInstrumentSkip == [][C17_Step]_allvars

\* C17 witness: the detector has returned; processing the second instrument
\* raised, and the frame returned holds a record of the first instrument and a
\* record of the third.
C17_MiddleInstrumentSkipped ==
    /\ an_pc = "returned"
    /\ skipped = {"Y"}
    /\ Len(returned) = 1
    /\ Len(returned[1]) = 2
    /\ returned[1][1].stock_id = "X"
    /\ returned[1][2].stock_id = "Z"

\* The bundle is an empty mapping, or has no today's-financing-balance table,
\* or an empty one.
UnusableBundle(bundle) ==
    \/ bundle.fields = {}
    \/ "latest_margin" \notin bundle.fields
    \/ bundle.latest_empty

\* C18: analyze does not raise when the margin/short bundle is empty or has
\* no, or an empty, today's-financing-balance table.
C18_EmptyBundleReturnsEmpty ==
    (margin_data.kind = "dict" /\ UnusableBundle(margin_data)) => an_pc # "raised"

\* -------------------------------------------------- claims on the filter

\* C19: the frame filter_signals returns holds exactly the rows of its input
\* whose price is available and lies in [10, 500], each once and as it was in
\* the input.
C19_PriceRange ==
    f_pc = "returned" =>
        /\ SeqRange(f_result) =
              { r \in SeqRange(f_signals) :
                  /\ ~IsNaN(r.current_price)
                  /\ 10 <= r.current_price /\ r.current_price <= 500 }
        /\ \A i, j \in 1..Len(f_result) : i # j => f_result[i] # f_result[j]

\* C19 witness: the input had rows at 9, 10 and 500; the rows at 10 and 500
\* were returned and the row at 9 was not.
C19_BoundsKept ==
    /\ f_pc = "returned"
    /\ \E r \in SeqRange(f_signals) : r.current_price = 9
    /\ \E r \in SeqRange(f_result) : r.current_price = 10
    /\ \E r \in SeqRange(f_result) : r.current_price = 500
    /\ Len(f_result) < Len(f_signals)

\* The priority of C20: S(0) < A(1) < B(2) < URGENT(3) < HIGH(4).
C20_Priority(g) ==
    CASE g = "S" -> 0 [] g = "A" -> 1 [] g = "B" -> 2 [] g = "URGENT" -> 3
      [] g = "HIGH" -> 4

\* C20: the rows returned are in the order of the grade priority, and two rows
\* of the same grade are in the order they had in the input.
C20_StableGradeOrder ==
    f_pc = "returned" =>
        \A i, j \in 1..Len(f_result) :
            i < j =>
                \/ C20_Priority(f_result[i].signal_grade)
                      < C20_Priority(f_result[j].signal_grade)
                \/ /\ f_result[i].signal_grade = f_result[j].signal_grade
                   /\ f_result[i].index < f_result[j].index

\* C20, amended: the rows returned are in the order of the grade priority.
C20_GradeOrder ==
    f_pc = "returned" =>
        \A i, j \in 1..Len(f_result) :
            i < j => C20_Priority(f_result[i].signal_grade)
                        <= C20_Priority(f_result[j].signal_grade)

\* C20 witness: the input grades B, S, URGENT, A came out as S, A, B, URGENT.
C20_MixedGrades ==
    /\ f_pc = "returned"
    /\ Len(f_signals) = 4
    /\ <<f_signals[1].signal_grade, f_signals[2].signal_grade,
         f_signals[3].signal_grade, f_signals[4].signal_grade>>
          = <<"B", "S", "URGENT", "A">>
    /\ Len(f_result) = 4
    /\ <<f_result[1].signal_grade, f_result[2].signal_grade,
         f_result[3].signal_grade, f_result[4].signal_grade>>
          = <<"S", "A", "B", "URGENT">>

\* C23: a run that ends with an empty trade log reports total_trades,
\* winning_trades, losing_trades, win_rate, total_return, annual_return,
\* sharpe_ratio and max_drawdown all equal to 0, and its final_capital is the
\* last value of the equity curve, or initial_capital when the curve is empty.
C23_NoTradeMetrics ==
    (pc = "done" /\ results # <<>> /\ trades = <<>>) =>
        LET r == results[1]
        IN  /\ r.total_trades = 0 /\ r.winning_trades = 0 /\ r.losing_trades = 0
            /\ r.win_rate = ZeroRatio /\ r.total_return = ZeroRatio
            /\ r.annual_return = ExprZero /\ r.sharpe_ratio = ExprZero
            /\ r.max_drawdown = ZeroRatio
            /\ r.final_capital = IF equity_curve = <<>> THEN initial_capital
                                 ELSE equity_curve[Len(equity_curve)].value

\* A finished run without a trade whose curve ends away from the initial
\* capital (a position is still open and marked to market).
C23_NoTradeOpenPosition ==
    /\ pc = "done" /\ results # <<>> /\ trades = <<>>
    /\ equity_curve # <<>>
    /\ equity_curve[Len(equity_curve)].value # initial_capital

\* The running maximum of the curve's amounts up to day i.
RunningMax(v, i) ==
    CHOOSE m \in {v[j] : j \in {k \in 1..i : ~IsNaN(v[k])}} :
        \A j \in 1..i : IsNaN(v[j]) \/ v[j] <= m

Increasing(v) == \A i \in 1..Len(v) : ~IsNaN(v[i]) /\ (i > 1 => v[i-1] <= v[i])

HalvesThenRecovers(v) == Len(v) = 3 /\ ~IsNaN(v[1]) /\ v[2] * 2 = v[1] /\ v[3] = v[1]

\* C24: with at least one trade, max_drawdown is the minimum over the days of
\* the curve of (equity - running maximum) / running maximum; it is <= 0, it is
\* 0 on an increasing curve and -1/2 on a curve that halves and then recovers.
C24_MaxDrawdown ==
    (pc = "done" /\ results # <<>> /\ trades # <<>>) =>
        LET v == Values(equity_curve)
            md == results[1].max_drawdown
            days == {i \in 1..Len(v) : ~IsNaN(v[i])}
        IN  /\ ~md.nan
            /\ \A i \in days :
                   md.num * RunningMax(v, i) <= (v[i] - RunningMax(v, i)) * md.den
            /\ \E i \in days :
                   md.num * RunningMax(v, i) = (v[i] - RunningMax(v, i)) * md.den
            /\ md.num <= 0
            /\ Increasing(v) => md.num = 0
            /\ HalvesThenRecovers(v) => md = Ratio(-1, 2)

\* The metrics of a curve that halves and then recovers have been computed.
C24_HalvedAndRecovered ==
    /\ pc = "done" /\ results # <<>> /\ trades # <<>>
    /\ Values(equity_curve) = <<100, 50, 100>>
    /\ results[1].max_drawdown = Ratio(-1, 2)

\* C27: at every point of a run the number of open holdings is at most
\* MAX_HOLDINGS, whatever number of distinct BUY rows the callback returns.
C27_HoldingsWithinLimit == Len(holdings) <= MAX_HOLDINGS

\* The instruments entered on the day of the step, with the cost of each entry
\* (shares * entry price): they are open after the step or closed by it.
EnteredToday ==
    { [stock_id |-> h.stock_id, cost |-> h.shares * h.entry_price] :
        h \in { x \in SeqRange(holdings') \cup SeqRange(NewTrades(trades, trades')) :
                  x.entry_date = current_date' } }

\* Every entry of the day, taken in the order of the BUY rows `buys` with
\* `cash` in hand, costs at most 10% of the cash in hand and at most 10% of the
\* initial capital.
RECURSIVE EntriesWithinBudget(_, _, _)
EntriesWithinBudget(buys, cash, seen) ==
    IF buys = <<>> THEN TRUE
    ELSE LET s == Head(buys).stock_id
             mine == { e \in EnteredToday : e.stock_id = s }
         IN  IF s \in seen \/ mine = {}
             THEN EntriesWithinBudget(Tail(buys), cash, seen)
             ELSE LET e == CHOOSE e \in mine : TRUE
                  IN  /\ 10 * e.cost <= cash
                      /\ 10 * e.cost <= initial_capital
                      /\ EntriesWithinBudget(Tail(buys), cash - e.cost, seen \cup {s})

\* The conditions under which the claim C28 speaks: a capital that is not
\* negative, a stop-loss of at least -100 % and positive prices.
C28_Conditions ==
    /\ initial_capital >= 0
    /\ profile.stop_loss >= -100
    /\ \A s \in DOMAIN row : row[s] > 0 \/ pc = "start" \/ current_date = 0

\* After the step the cash is not negative; the entries and exits of the step,
\* if it is a day with rows, are within the claim's limits.
C28_DayWithinBudget ==
    /\ current_capital' >= 0
    /\ SignalDayStep =>
        /\ EntriesWithinBudget(buy_signals(signals'.rows), current_capital, {})
        /\ \A i \in 1..Len(NewTrades(trades, trades')) :
               NewTrades(trades, trades')[i].shares * NewTrades(trades, trades')[i].exit_price >= 0

\* C28 as stated: with initial_capital >= 0, positive prices and a stop-loss
\* of at least -100 %, the cash is never negative (it starts as the initial
\* capital and no step makes it negative), every entry debits at most 10% of
\* the cash in hand and of the initial capital, and every exit credits an
\* amount that is not negative.
C28_CashNeverNegative ==
    [][C28_Conditions' => C28_DayWithinBudget]_allvars

\* C28 amended: the same, for rows whose expected return is at least -100 %.
C28_CashNeverNegativeForTargetsAboveMinus100 ==
    [][(C28_Conditions' /\ profile.expected_return >= -100) => C28_DayWithinBudget]_allvars

\* A day on which positions were entered and a stop-loss exit was credited.
C28_EntriesAndStopLossExit ==
    /\ DayDone /\ HadSignals
    /\ C28_Conditions /\ profile.expected_return >= -100
    /\ \E i \in 1..Len(trades) :
          trades[i].exit_date = current_date /\ trades[i].exit_reason = "stop_loss"
    /\ \E i \in 1..Len(holdings) : holdings[i].entry_date = current_date
    /\ current_capital >= 0

\* No price of the series up to the position i is below the one before it: the
\* average loss at i is 0.
NoLossUpTo(p, period, i) ==
    \A j \in 2..Len(p) : (j <= i \/ j <= period + 1) => p[j] >= p[j-1]

\* C21: for a series of at least period + 1 points every value returned by
\* calculate_rsi lies in [0, 100], and it is 100 wherever the average loss
\* is 0.
C21_RsiRange ==
    (rsi_pc = "returned" /\ Len(rsi_prices) >= rsi_period + 1) =>
        \A i \in 1..Len(rsi_out) :
            /\ ~rsi_out[i].nan
            /\ rsi_out[i].num >= 0
            /\ rsi_out[i].num <= 100 * rsi_out[i].den
            /\ NoLossUpTo(rsi_prices, rsi_period, i) => rsi_out[i] = Ratio(100, 1)

\* C22: for a series of fewer than period + 1 points every value returned by
\* calculate_rsi is missing.
C22_ShortSeriesAllMissing ==
    (rsi_pc = "returned" /\ Len(rsi_prices) < rsi_period + 1) =>
        \A i \in 1..Len(rsi_out) : rsi_out[i].nan

\* C25: when the analysis raises, no buy notification, sell notification,
\* daily summary or 'no signals' message is sent; a notifier call is made only
\* after analyze, and filter_signals when it is called, have returned; and the
\* error reaches main(), which ends the process with the failure status 1.
C25_NoNotificationOnFailure ==
    /\ [](m_raised => m_sent = <<>>)
    /\ [](m_sent # <<>> =>
            /\ "analyze" \in m_returned
            /\ (m_signals # <<>> => "filter_signals" \in m_returned))
    /\ []((m_raised /\ m_pc = "exited") => m_exit = "1")
    /\ (m_raised ~> (m_pc = "exited" /\ m_exit = "1"))

\* The analysis raised and the process has exited with status 1 without a
\* notifier call.
C25_FailedRunExited ==
    /\ m_raised
    /\ m_pc = "exited"
    /\ m_exit = "1"
    /\ m_sent = <<>>

RECURSIVE Power(_, _)
Power(b, e) == IF e = 0 THEN 1 ELSE b * Power(b, e - 1)

\* The invocations of func that raised, among those made so far.
Failures == { i \in 1..Len(outcomes) : outcomes[i] = "raised" }

\* C26: a call through retry_on_failure with max_attempts >= 1 ends after at
\* most max_attempts invocations of the function; it returns the result of the
\* first invocation that succeeds and makes no invocation after it; the waits
\* are delay, delay * backoff, delay * backoff^2, ..., one after each failed
\* invocation but the max_attempts-th; and after the max_attempts-th failure
\* the exception of that invocation is raised without a further wait.
C26_Retry ==
    /\ [](Len(outcomes) <= max_attempts)
    /\ [](\A i \in 1..Len(slept) : slept[i] = delay * Power(backoff, i - 1))
    /\ [](retry_pc = "try" => Len(slept) = Len(outcomes) /\ Failures = 1..Len(outcomes))
    /\ [](retry_pc = "returned" =>
            /\ outcomes[Len(outcomes)] = "returned"
            /\ Failures = 1..(Len(outcomes) - 1)
            /\ propagated = Len(outcomes)
            /\ Len(slept) = Len(outcomes) - 1)
    /\ [](retry_pc = "raised" =>
            /\ Failures = 1..max_attempts
            /\ Len(outcomes) = max_attempts
            /\ propagated = max_attempts
            /\ Len(slept) = max_attempts - 1)
    /\ [][(retry_pc = "returned" \/ retry_pc = "raised") => (tvars' = tvars)]_allvars
    /\ <>(retry_pc \in {"returned", "raised"})

\* The third of three attempts failed after waits of 5 and 10.
C26_ThreeFailures ==
    /\ retry_pc = "raised"
    /\ max_attempts = 3
    /\ slept = <<5, 10>>
    /\ propagated = 3

====
